---------------------------- MODULE Spec2Model ----------------------------
(***************************************************************************)
(* Model of the CSV-to-Project issue pipeline of kickoff-kit:              *)
(* issues.py (main), workflow_issues/analyzer.py, workflow_issues/         *)
(* creator.py and workflow_issues/validator.py, run against a model of the *)
(* GitHub repository and Project the requests are sent to.                 *)
(*                                                                         *)
(* Python strings are sequences of one-character strings, so that          *)
(* str.lower() and str.strip() are computed and not assumed.               *)
(***************************************************************************)
EXTENDS Integers, Sequences, FiniteSets, TLC

\* ------------------------------------------------------------------ bounds
MaxRows == 3
MaxFailures == 1

\* ------------------------------------------------------- string operations
UpperChars == <<"A","B","C","D","E","F","G","H","I","J","K","L","M",
                "N","O","P","Q","R","S","T","U","V","W","X","Y","Z">>
LowerChars == <<"a","b","c","d","e","f","g","h","i","j","k","l","m",
                "n","o","p","q","r","s","t","u","v","w","x","y","z">>

LowerChar(c) ==
    IF \E i \in 1..26 : UpperChars[i] = c
    THEN LowerChars[CHOOSE i \in 1..26 : UpperChars[i] = c]
    ELSE c

\* str.lower()
Lower(s) == [i \in 1..Len(s) |-> LowerChar(s[i])]

RECURSIVE LStrip(_)
LStrip(s) == IF s # <<>> /\ Head(s) = " " THEN LStrip(Tail(s)) ELSE s

RECURSIVE RStrip(_)
RStrip(s) == IF s # <<>> /\ s[Len(s)] = " "
             THEN RStrip(SubSeq(s, 1, Len(s) - 1)) ELSE s

\* str.strip()
Strip(s) == RStrip(LStrip(s))

Range(f) == {f[i] : i \in DOMAIN f}

\* the first of a set of indices, 0 when there is none
First(S) == IF S = {} THEN 0 ELSE CHOOSE i \in S : \A j \in S : i <= j

\* ------------------------------------------------------------ the strings
sEmpty == <<>>
sTitle == <<"T","i","t","l","e">>
sBody == <<"B","o","d","y">>
sAssignees == <<"A","s","s","i","g","n","e","e","s">>
sLabels == <<"L","a","b","e","l","s">>
sText == <<"t","e","x","t">>
sLogins == <<"a","n","n",","," ","b","o","b">>
sBug == <<"b","u","g">>
sMilestone == <<"M","i","l","e","s","t","o","n","e">>
sStatus == <<"S","t","a","t","u","s">>
sWorkstream == <<"W","o","r","k","s","t","r","e","a","m">>
sNotes == <<"N","o","t","e","s">>
sEndDate == <<"E","n","d"," ","D","a","t","e">>
sDueDate == <<"D","u","e"," ","D","a","t","e">>
sBackend == <<"B","a","c","k","e","n","d">>
sFrontend == <<"F","r","o","n","t","e","n","d">>
sTodo == <<"T","o","d","o">>
sA == <<"A">>
sB == <<"B">>
sV1 == <<"v","1">>
sIsoDate == <<"2","0","2","4","-","0","2","-","2","9">>
sUsDate == <<"0","2","/","2","9","/","2","0","2","4">>
sBadDate == <<"s","o","o","n">>
sDateField == <<"D","A","T","E"," ","F","I","E","L","D">>


\* ------------------------------------------------------------------ dates
Digits == <<"0","1","2","3","4","5","6","7","8","9">>
IsDigit(c) == \E i \in 1..10 : Digits[i] = c
DigitVal(c) == (CHOOSE i \in 1..10 : Digits[i] = c) - 1
AllDigits(s) == \A i \in 1..Len(s) : IsDigit(s[i])

RECURSIVE NumVal(_)
NumVal(s) == IF s = <<>> THEN 0
             ELSE 10 * NumVal(SubSeq(s, 1, Len(s) - 1)) + DigitVal(s[Len(s)])

\* re.match(r'^\d{4}-\d{2}-\d{2}(T\d{2}:\d{2}:\d{2}Z)?$', s)
IsIsoDate(s) ==
    LET DatePart(d) == /\ Len(d) = 10
                       /\ d[5] = "-" /\ d[8] = "-"
                       /\ \A i \in {1,2,3,4,6,7,9,10} : IsDigit(d[i])
        TimePart(t) == /\ Len(t) = 10
                       /\ t[1] = "T" /\ t[4] = ":" /\ t[7] = ":" /\ t[10] = "Z"
                       /\ \A i \in {2,3,5,6,8,9} : IsDigit(t[i])
    IN  \/ DatePart(s)
        \/ Len(s) = 20 /\ DatePart(SubSeq(s, 1, 10)) /\ TimePart(SubSeq(s, 11, 20))

\* the three parts of s around two separators sep, <<>> when s has another shape
SplitDate(s, sep) ==
    LET idx == {i \in 1..Len(s) : s[i] = sep}
    IN  IF Cardinality(idx) # 2 THEN <<>>
        ELSE LET i1 == CHOOSE i \in idx : \A j \in idx : i <= j
                 i2 == CHOOSE i \in idx : \A j \in idx : i >= j
             IN  <<SubSeq(s, 1, i1 - 1), SubSeq(s, i1 + 1, i2 - 1),
                   SubSeq(s, i2 + 1, Len(s))>>

DaysInMonth(y, m) ==
    IF m \in {4, 6, 9, 11} THEN 30
    ELSE IF m = 2
         THEN (IF (y % 4 = 0 /\ y % 100 # 0) \/ y % 400 = 0 THEN 29 ELSE 28)
         ELSE 31

\* %Y is four digits, %m and %d one or two digits; datetime checks the ranges
ValidYMD(y, m, d) ==
    /\ Len(y) = 4 /\ AllDigits(y) /\ NumVal(y) >= 1
    /\ Len(m) \in {1, 2} /\ AllDigits(m) /\ NumVal(m) \in 1..12
    /\ Len(d) \in {1, 2} /\ AllDigits(d) /\ NumVal(d) >= 1
    /\ NumVal(d) <= DaysInMonth(NumVal(y), NumVal(m))

Pad2(s) == IF Len(s) = 1 THEN <<"0">> \o s ELSE s

\* date_obj.strftime('%Y-%m-%d')
FormatYMD(y, m, d) == y \o <<"-">> \o Pad2(m) \o <<"-">> \o Pad2(d)

\* handle_date_field's conversion of the CSV value; <<>> when no format parses
ParseDate(s) ==
    LET dash == SplitDate(s, "-")
        slash == SplitDate(s, "/")
    IN  IF IsIsoDate(s) THEN s
        ELSE IF dash # <<>> /\ ValidYMD(dash[1], dash[2], dash[3])
             THEN FormatYMD(dash[1], dash[2], dash[3])
        ELSE IF slash # <<>> /\ ValidYMD(slash[3], slash[1], slash[2])
             THEN FormatYMD(slash[3], slash[1], slash[2])
        ELSE IF slash # <<>> /\ ValidYMD(slash[3], slash[2], slash[1])
             THEN FormatYMD(slash[3], slash[2], slash[1])
        ELSE IF slash # <<>> /\ ValidYMD(slash[1], slash[2], slash[3])
             THEN FormatYMD(slash[1], slash[2], slash[3])
        ELSE <<>>

\* ------------------------------------------------------------ the analyzer
STANDARD_FIELDS == {Lower(sTitle), Lower(sBody), Lower(sAssignees),
                    Lower(sLabels), Lower(sMilestone), Lower(sStatus)}

DATE_FIELDS == {Lower(sEndDate), Lower(sDueDate),
                <<"s","t","a","r","t"," ","d","a","t","e">>,
                <<"d","e","a","d","l","i","n","e">>}

\* row.get(header, ""): a row is the sequence of its cells, in header order
Cell(headers, row, header) ==
    LET i == First({i \in 1..Len(headers) : headers[i] = header})
    IN  IF i = 0 THEN <<>> ELSE row[i]

\* field_dict[field["name"].lower()] = field, a later field replacing an
\* earlier one of the same lower-cased name
FieldDict(nodes) ==
    [k \in {Lower(nodes[i].name) : i \in 1..Len(nodes)} |->
        nodes[CHOOSE i \in 1..Len(nodes) :
                 /\ Lower(nodes[i].name) = k
                 /\ \A j \in (i + 1)..Len(nodes) : Lower(nodes[j].name) # k]]

\* the values collected without value.strip()
ColumnValues_raw(headers, rows, header) ==
    {Cell(headers, rows[r], header) : r \in 1..Len(rows)} \ {<<>>}

\* the unique non-empty trimmed values of a column
ColumnValues(headers, rows, header) ==
    {Strip(Cell(headers, rows[r], header)) : r \in 1..Len(rows)} \ {<<>>}

AnalysisFailed == [success |-> FALSE]

MissingOptionsOf(headers, rows, project_fields, field) ==
    LET project_field == project_fields[Lower(field)]
        existing_options == {project_field.options[o].name :
                                o \in 1..Len(project_field.options)}
    IN  IF project_field.dataType # "SINGLE_SELECT" THEN {}
        ELSE {val \in ColumnValues(headers, rows, field) :
                 val \notin existing_options}

\* the lookup without field.lower()
IsMissingField_exact(project_fields, field) ==
    field \notin DOMAIN project_fields

\* field_lower in project_fields, negated
IsMissingField(project_fields, field) ==
    Lower(field) \notin DOMAIN project_fields

\* the date loop without its check that the field exists
IsMissingDate_unchecked(project_fields, header) ==
    Lower(header) \in DATE_FIELDS

\* a date-named header (DATE_FIELDS) that the Project has no field for
IsMissingDate(project_fields, header) ==
    /\ Lower(header) \in DATE_FIELDS
    /\ Lower(header) \notin DOMAIN project_fields

\* missing_fields[header] = ["DATE FIELD"]
DateMarker == {sDateField}

analyze_csv_and_project(headers, rows, project_fields) ==
    IF headers = <<>> \/ rows = <<>> \/ DOMAIN project_fields = {}
    THEN AnalysisFailed
    ELSE
    LET standard_fields == SelectSeq(headers, LAMBDA h : Lower(h) \in STANDARD_FIELDS)
        custom_fields == SelectSeq(headers, LAMBDA h : Lower(h) \notin STANDARD_FIELDS)
        existing_custom_fields ==
            SelectSeq(custom_fields, LAMBDA f : ~IsMissingField(project_fields, f))
        missing_custom == {f \in Range(custom_fields) : IsMissingField(project_fields, f)}
        missing_dates == {h \in Range(headers) : IsMissingDate(project_fields, h)}
        with_options == {f \in Range(existing_custom_fields) :
                            MissingOptionsOf(headers, rows, project_fields, f) # {}}
    IN  [success |-> TRUE,
         standard_fields |-> standard_fields,
         existing_custom_fields |-> existing_custom_fields,
         missing_fields |->
            [f \in missing_custom \cup missing_dates |->
                IF f \in missing_dates
                THEN DateMarker
                ELSE ColumnValues(headers, rows, f)],
         missing_options |->
            [f \in with_options |->
                MissingOptionsOf(headers, rows, project_fields, f)],
         project_fields |-> project_fields,
         date_fields |-> SelectSeq(headers, LAMBDA h :
                            /\ Lower(h) \in DATE_FIELDS
                            /\ Lower(h) \in DOMAIN project_fields)]

\* a validate_csv that asks every row for a title
validate_csv_all_rows(exists, headers, rows) ==
    LET t == First({i \in 1..Len(headers) : Lower(headers[i]) = Lower(sTitle)})
    IN  /\ exists
        /\ headers # <<>>
        /\ t # 0
        /\ rows # <<>>
        /\ \A r \in 1..Len(rows) : rows[r][t] # <<>>

\* validate_csv; exists: os.path.exists(csv_path) and no exception on reading
validate_csv(exists, headers, rows) ==
    LET t == First({i \in 1..Len(headers) : Lower(headers[i]) = Lower(sTitle)})
    IN  /\ exists
        /\ headers # <<>>
        /\ t # 0
        /\ rows # <<>>
        /\ rows[1][t] # <<>>

\* safe_get(d, key): the value under the first key equal to key ignoring
\* case, "" when there is none
safe_get(headers, row, key) ==
    LET i == First({i \in 1..Len(headers) : Lower(headers[i]) = Lower(key)})
    IN  IF i = 0 THEN <<>> ELSE row[i]

\* str.split(","): the pieces of s between its commas
RECURSIVE SplitCommas(_)
SplitCommas(s) ==
    LET i == First({k \in 1..Len(s) : s[k] = ","})
    IN  IF i = 0 THEN <<s>>
        ELSE <<SubSeq(s, 1, i - 1)>> \o SplitCommas(SubSeq(s, i + 1, Len(s)))

\* [a.strip() for a in assignees_str.split(",")] if assignees_str else []
StrippedList(str) ==
    IF str = <<>> THEN <<>>
    ELSE [i \in 1..Len(SplitCommas(str)) |-> Strip(SplitCommas(str)[i])]

\* create_issue's payload, a dict of four keys: body or "", assignees or [],
\* labels or []
create_issue_payload(title, body, assignees, labels) ==
    [key \in {"title", "body", "assignees", "labels"} |->
        CASE key = "title" -> title
          [] key = "body" -> body
          [] key = "assignees" -> assignees
          [] key = "labels" -> labels]

\* the payload create_sample_issue and create_issues send for a row
RowPayload(headers, row) ==
    create_issue_payload(safe_get(headers, row, sTitle),
                         safe_get(headers, row, sBody),
                         StrippedList(safe_get(headers, row, sAssignees)),
                         StrippedList(safe_get(headers, row, sLabels)))

\* --------------------------------------------------------------- the inputs
SeqsUpTo(S, n) == UNION {[1..k -> S] : k \in 0..n}

Option(id, name) == [id |-> id, name |-> name, color |-> "GRAY"]

fStatus == [id |-> 1, name |-> sStatus, dataType |-> "SINGLE_SELECT",
            options |-> <<Option(11, sTodo)>>]
fWorkstream == [id |-> 2, name |-> sWorkstream, dataType |-> "SINGLE_SELECT",
                options |-> <<Option(12, sBackend)>>]
fEndDate == [id |-> 3, name |-> sEndDate, dataType |-> "DATE", options |-> <<>>]
fDueDate == [id |-> 4, name |-> sDueDate, dataType |-> "DATE", options |-> <<>>]
fNotes == [id |-> 5, name |-> sNotes, dataType |-> "TEXT", options |-> <<>>]

Milestone(number, title, state) ==
    [number |-> number, title |-> title, state |-> state]

\* The CSV files and the repositories and Projects they are run against:
\* a header row, the rows a file is built from and how many it may have, the
\* Project's fields and the repository's milestones.  The two-column files are
\* the ones that grow to MaxRows rows; the wider files stay one row shorter.
Inputs ==
    { [headers |-> <<sTitle, sWorkstream>>,
       rows |-> MaxRows,
       pool |-> { <<sA, sBackend>>, <<sB, <<" ">> \o sFrontend \o <<" ">> >> },
       projects |-> { <<fStatus>> },
       milestones |-> { <<>> }],
      [headers |-> <<sTitle, sStatus>>,
       rows |-> MaxRows,
       pool |-> { <<sA, sTodo>>, <<sB, sBackend>> },
       projects |-> { <<fStatus>> },
       milestones |-> { <<>> }],
      [headers |-> <<Lower(sTitle), sMilestone, Lower(sWorkstream)>>,
       rows |-> MaxRows - 1,
       pool |-> { <<sA, sV1, sBackend>>, <<sB, sV1, Lower(sBackend)>> },
       projects |-> { <<fStatus, fWorkstream>> },
       milestones |-> { <<>>, <<Milestone(1, sV1, "open")>>,
                        <<Milestone(1, sV1, "closed")>> }],
      [headers |-> <<sTitle, sStatus, sEndDate>>,
       rows |-> MaxRows - 1,
       pool |-> { <<sA, sTodo, sIsoDate>>, <<sB, sBackend, sUsDate>>,
                  <<sA, sEmpty, sBadDate>> },
       projects |-> { <<fStatus, fEndDate>> },
       milestones |-> { <<>> }],
      [headers |-> <<sTitle, sDueDate, sNotes, sWorkstream>>,
       rows |-> MaxRows - 1,
       pool |-> { <<sA, sIsoDate, sTodo, sFrontend>>,
                  <<sEmpty, sEmpty, sEmpty, sBackend>> },
       projects |-> { <<fStatus, fNotes, fWorkstream>>,
                      <<fStatus, fDueDate, fNotes, fWorkstream>> },
       milestones |-> { <<>> }],
      [headers |-> <<sBody>>,
       rows |-> MaxRows - 1,
       pool |-> { <<sA>> },
       projects |-> { <<fStatus>> },
       milestones |-> { <<>> }],
      [headers |-> <<sTitle, sBody, sAssignees, sLabels>>,
       rows |-> MaxRows - 1,
       pool |-> { <<sA, sEmpty, sEmpty, sEmpty>>, <<sB, sText, sLogins, sBug>> },
       projects |-> { <<fStatus>> },
       milestones |-> { <<>> }],
      [headers |-> <<>>,
       rows |-> 0,
       pool |-> {},
       projects |-> { <<fStatus>> },
       milestones |-> { <<>> }] }

\* ---------------------------------------------------------------- the state
VARIABLES
    token_loaded,      \* secrets.yaml exists, loads and holds github_token
    csv_exists,        \* the CSV file exists and is read without an exception
    urls_valid,        \* --repo-url and --project-url have the shapes asked for
    csv_headers,       \* the CSV file: its header row
    csv_rows,          \*   and its data rows, each the sequence of its cells
    ghFields,          \* GitHub: the Project's fields, in creation order
    ghMilestones,      \* GitHub: the repository's milestones
    ghIssues,          \* GitHub: the issues created, [number, row, milestone]
    ghItems,           \* GitHub: the Project's items, [id, issue]
    nextId,            \* GitHub: the next node id it hands out
    requests,          \* every HTTP request sent so far, in order
    failures,          \* how many of them were answered with a failure
    pc,                \* where main() is
    exit_code,         \* the process's exit code, -1 while it runs
    analysis_results,  \* main's analysis_results
    fields_to_create,  \* main's fields_to_create
    row_index,         \* create_issues' i + 1: the row being processed
    col_index,         \* the column the field loop is at
    issue_data,        \* the number of the row's created issue
    item_id,           \* the id of the row's Project item
    sample_result,     \* create_sample_issue's result
    continue_choice,   \* main's continue_choice, "" before the prompt
    created_count,     \* create_issues' created_count
    skipped_count,     \* create_issues' skipped_count
    option_calls,      \* history: the calls of find_option_id, in order
    vf_field_name,     \* validate_field_values: its field_name argument
    vf_field_values,   \*   its field_values argument
    vf_result,         \*   and what it returned, <<>> before the call
    ghViews,           \* GitHub: the Project's views, in order
    ghProjectItems,    \* GitHub: the Project's items, in order
    ghLabelled,        \* GitHub: the <<issue, label>> pairs applied
    ghAuditPage,       \* GitHub: the audit log page exists
    selected_views,    \* pruner config: the ids of the selected views
    dry_run,           \* pruner config: dry_run
    args_dry_run,      \* the pruner's command line: --dry-run
    done_age_days,     \* pruner config: done_age_days
    done_overflow_limit, \* pruner config: done_overflow_limit
    all_views,         \* get_project_issues_by_views' all_views
    view_index,        \*   and the position of its loop over view_ids
    cursor,            \* the paging loops' cursor, 0 for None
    view_issues,       \* get_project_issues_by_views' view_issues
    all_issues,        \*   and its all_issues
    project_issues,    \* the issues fetched so far, then run_pruner's issues
    label_index,       \* the position of run_pruner's loop over the issues
    actions,           \* run_pruner's actions, for the audit log
    pruner_result,     \* run_pruner's result
    confirm_live,      \* dump.py's command line: --confirm-live
    headers_in_csv,    \* dump.py: the CSV file's header row
    dump_issues,       \*   and its rows, main's issues
    ghDumpFields,      \* GitHub: the names of the Project's fields
    ghDumpIssues,      \* GitHub: the titles of the issues dump.py created
    ghDumpMilestones,  \* GitHub: the titles of the milestones it created
    existing_fields,   \* main's existing_fields: the names fetched
    confirm,           \* the answer typed in validate_csv_headers
    field_index,       \* the position of its loop over unknown
    issue_index,       \* the position of main's loop over issues
    milestone_cache    \* main's milestone_cache: the titles in it

csvVars == <<token_loaded, csv_exists, urls_valid, csv_headers, csv_rows>>
validatorVars == <<vf_field_name, vf_field_values, vf_result>>
prunerGhVars == <<ghViews, ghProjectItems, ghLabelled, ghAuditPage>>
prunerConfig == <<selected_views, dry_run, args_dry_run, done_age_days,
                  done_overflow_limit>>
prunerVars == <<prunerGhVars, prunerConfig, all_views, view_index, cursor,
                view_issues, all_issues, project_issues, label_index, actions,
                pruner_result>>

\* the variables of the issue pipeline alone
issuesVars == <<csvVars, ghFields, ghMilestones, ghIssues, ghItems, nextId,
                analysis_results, fields_to_create, row_index, col_index,
                issue_data, item_id, sample_result, continue_choice,
                created_count, skipped_count, option_calls>>

dumpVars == <<confirm_live, headers_in_csv, dump_issues, ghDumpFields,
              ghDumpIssues, ghDumpMilestones, existing_fields, confirm,
              field_index, issue_index, milestone_cache>>

vars == <<issuesVars, requests, failures, pc, exit_code, validatorVars,
          prunerVars, dumpVars>>
ghVars == <<ghFields, ghMilestones, ghIssues, ghItems, nextId>>
rowVars == <<row_index, col_index, issue_data, item_id>>
countVars == <<created_count, skipped_count>>

NoResult == [success |-> FALSE, issue_number |-> 0]

\* the validator's and the pruner's variables while another tool runs
ValidatorIdle ==
    /\ vf_field_name = <<>>
    /\ vf_field_values = <<>>
    /\ vf_result = <<>>

\* run_pruner's result before it returns
NoPrunerResult ==
    [success |-> FALSE, not_planned_count |-> 0, archived_count |-> 0,
     total_processed |-> 0]

\* the pruner's locals before run_pruner starts
PrunerLocalsInit ==
    /\ all_views = <<>>
    /\ view_index = 0
    /\ cursor = 0
    /\ view_issues = <<>>
    /\ all_issues = <<>>
    /\ project_issues = <<>>
    /\ label_index = 0
    /\ actions = <<>>
    /\ pruner_result = NoPrunerResult

PrunerIdle ==
    /\ ghViews = <<>>
    /\ ghProjectItems = <<>>
    /\ ghLabelled = {}
    /\ ghAuditPage = FALSE
    /\ selected_views = <<>>
    /\ dry_run = FALSE
    /\ args_dry_run = FALSE
    /\ done_age_days = 0
    /\ done_overflow_limit = 0
    /\ PrunerLocalsInit

\* dump.py's variables while another tool runs
DumpIdle ==
    /\ confirm_live = FALSE
    /\ headers_in_csv = <<>>
    /\ dump_issues = <<>>
    /\ ghDumpFields = <<>>
    /\ ghDumpIssues = <<>>
    /\ ghDumpMilestones = <<>>
    /\ existing_fields = {}
    /\ confirm = ""
    /\ field_index = 0
    /\ issue_index = 0
    /\ milestone_cache = {}

Init ==
    /\ token_loaded \in BOOLEAN
    /\ csv_exists \in BOOLEAN
    /\ urls_valid \in BOOLEAN
    /\ ValidatorIdle
    /\ PrunerIdle
    /\ DumpIdle
    /\ \E input \in Inputs :
        /\ csv_headers = input.headers
        /\ csv_rows \in SeqsUpTo(input.pool, input.rows)
        /\ ghFields \in input.projects
        /\ ghMilestones \in input.milestones
    /\ ghIssues = <<>>
    /\ ghItems = <<>>
    /\ nextId = 20    \* above the ids of the fields and options GitHub starts with
    /\ requests = <<>>
    /\ failures = 0
    /\ pc = "load_config"
    /\ exit_code = -1
    /\ analysis_results = AnalysisFailed
    /\ fields_to_create = {}
    /\ row_index = 0
    /\ col_index = 0
    /\ issue_data = 0
    /\ item_id = 0
    /\ sample_result = NoResult
    /\ continue_choice = ""
    /\ created_count = 0
    /\ skipped_count = 0
    /\ option_calls = <<>>

\* ------------------------------------------------------------- the requests
Request(op, row, item, a, b, ok) ==
    [op |-> op, row |-> row, item |-> item, a |-> a, b |-> b, ok |-> ok]

\* the responses a request may get: a failure only while the run's budget of
\* failed responses lasts
Responses(used) == {TRUE} \cup (IF failures + used < MaxFailures THEN {FALSE} ELSE {})

Failed(ok) == IF ok THEN 0 ELSE 1

\* sys.exit(code)
Exit(code) ==
    /\ pc' = "exit"
    /\ exit_code' = code

\* --------------------------------------------------------------- main, start
\* a load_config that logs the missing token and returns
LoadConfig_unchecked ==
    /\ pc = "load_config"
    /\ pc' = "validate" /\ exit_code' = exit_code
    /\ UNCHANGED <<validatorVars, dumpVars, prunerVars, csvVars, continue_choice, ghVars,
                   requests, failures, analysis_results, fields_to_create,
                   rowVars, sample_result, countVars, option_calls>>

\* load_config: secrets.yaml is missing, unreadable or has no github_token
LoadConfig ==
    /\ pc = "load_config"
    /\ IF token_loaded
       THEN pc' = "validate" /\ exit_code' = exit_code
       ELSE Exit(1)
    /\ UNCHANGED <<validatorVars, dumpVars, prunerVars, csvVars, continue_choice, ghVars, requests, failures, analysis_results,
                   fields_to_create, rowVars, sample_result, countVars,
                   option_calls>>

\* validate_csv, then validate_github_urls
ValidateInputs ==
    /\ pc = "validate"
    /\ IF validate_csv(csv_exists, csv_headers, csv_rows) /\ urls_valid
       THEN pc' = "check_access" /\ exit_code' = exit_code
       ELSE Exit(1)
    /\ UNCHANGED <<validatorVars, dumpVars, prunerVars, csvVars, continue_choice, ghVars, requests, failures, analysis_results,
                   fields_to_create, rowVars, sample_result, countVars,
                   option_calls>>

\* check_project_access: the organization query, then the viewer query when
\* the first is answered with errors
CheckAccess ==
    /\ pc = "check_access"
    /\ \E ok1 \in Responses(0) : \E ok2 \in Responses(Failed(ok1)) :
          LET q1 == Request("query_project", 0, 0, "organization", 0, ok1)
              q2 == Request("query_project", 0, 0, "viewer", 0, ok2)
          IN  IF ok1
              THEN /\ requests' = Append(requests, q1)
                   /\ failures' = failures
                   /\ pc' = "analyze" /\ exit_code' = exit_code
              ELSE /\ requests' = requests \o <<q1, q2>>
                   /\ failures' = failures + 1 + Failed(ok2)
                   /\ IF ok2 THEN pc' = "analyze" /\ exit_code' = exit_code
                             ELSE Exit(1)
    /\ UNCHANGED <<validatorVars, dumpVars, prunerVars, csvVars, continue_choice, ghVars, analysis_results, fields_to_create,
                   rowVars, sample_result, countVars, option_calls>>

\* GitHub: the nodes of a connection queried with first: n and no cursor
FirstPage(nodes, n) == SubSeq(nodes, 1, IF Len(nodes) < n THEN Len(nodes) ELSE n)

\* get_project_fields: fields(first: 100), read once; {} when the query is
\* answered with errors
get_project_fields(ok) ==
    IF ok THEN FieldDict(FirstPage(ghFields, 100)) ELSE <<>>

\* an analysis that creates the first field it finds missing
Analyze_creating ==
    /\ pc = "analyze"
    /\ \E ok \in Responses(0) :
          LET result == analyze_csv_and_project(csv_headers, csv_rows,
                                                get_project_fields(ok))
              missing == IF result.success THEN DOMAIN result.missing_fields ELSE {}
          IN  /\ requests' = Append(requests,
                                Request("query_fields", 0, 0, 0, 0, ok))
              /\ failures' = failures + Failed(ok)
              /\ analysis_results' = result
              /\ IF missing # {}
                 THEN /\ ghFields' = Append(ghFields,
                            [id |-> nextId, name |-> CHOOSE h \in missing : TRUE,
                             dataType |-> "SINGLE_SELECT", options |-> <<>>])
                      /\ nextId' = nextId + 1
                 ELSE UNCHANGED <<ghFields, nextId>>
              /\ IF result.success
                 THEN pc' = "process_fields" /\ exit_code' = exit_code
                 ELSE Exit(1)
    /\ UNCHANGED <<validatorVars, dumpVars, prunerVars, csvVars, continue_choice,
                   ghMilestones, ghIssues, ghItems, fields_to_create, rowVars,
                   sample_result, countVars, option_calls>>

\* analyze_csv_and_project; a failed analysis has no 'standard_fields' key and
\* process_fields_and_options raises, which ends the run with exit code 1
Analyze ==
    /\ pc = "analyze"
    /\ \E ok \in Responses(0) :
          LET result == analyze_csv_and_project(csv_headers, csv_rows,
                                                get_project_fields(ok))
          IN  /\ requests' = Append(requests,
                                Request("query_fields", 0, 0, 0, 0, ok))
              /\ failures' = failures + Failed(ok)
              /\ analysis_results' = result
              /\ IF result.success
                 THEN pc' = "process_fields" /\ exit_code' = exit_code
                 ELSE Exit(1)
    /\ UNCHANGED <<validatorVars, dumpVars, prunerVars, csvVars, continue_choice, ghVars, fields_to_create, rowVars, sample_result,
                   countVars, option_calls>>

\* process_fields_and_options: the user answers yes or no for each missing
\* field; the missing options are only reported
ProcessFields ==
    /\ pc = "process_fields"
    /\ \E approved \in SUBSET (DOMAIN analysis_results.missing_fields) :
          fields_to_create' = approved
    /\ pc' = "sample_create"
    /\ UNCHANGED <<validatorVars, dumpVars, prunerVars, csvVars, continue_choice, ghVars, requests, failures, exit_code,
                   analysis_results, rowVars, sample_result, countVars,
                   option_calls>>

\* ------------------------------------------------------------- the creator
\* what a call changes on GitHub and in the history
Effect(reqs, fields, next, failed, calls) ==
    [requests |-> reqs, fields |-> fields, next |-> next, failed |-> failed,
     calls |-> calls]

NoEffect == Effect(<<>>, ghFields, nextId, 0, <<>>)

\* a mutation that sets the field's options to the new option alone
ServerAppendOption_replace(fields, field_id, name, id) ==
    [i \in 1..Len(fields) |->
        IF fields[i].id = field_id
        THEN [fields[i] EXCEPT !.options = <<Option(id, name)>>]
        ELSE fields[i]]

\* GitHub: the field's options after the append-option mutation
ServerAppendOption(fields, field_id, name, id) ==
    [i \in 1..Len(fields) |->
        IF fields[i].id = field_id
        THEN [fields[i] EXCEPT !.options = Append(@, Option(id, name))]
        ELSE fields[i]]

\* get_updated_field: the field as GitHub holds it
get_updated_field(fields, field_id) ==
    fields[First({i \in 1..Len(fields) : fields[i].id = field_id})]

OptionId(options, value) ==
    LET hit == First({i \in 1..Len(options) : options[i].name = value})
    IN  IF hit = 0 THEN 0 ELSE options[hit].id

\* find_option_id(field, value): the option's id, 0 for None. field is the
\* caller's copy of the field, fetched by the analyzer.
find_option_id(field, value, r, item, okMut, okFetch) ==
    LET known == OptionId(field.options, value)
        appended == ServerAppendOption(ghFields, field.id, value, nextId)
        updated == get_updated_field(appended, field.id)
        mutation(ok) == Request("append_option", r, item, field.id, value, ok)
        query(ok) == Request("query_field", r, item, field.id, 0, ok)
    IN  IF known # 0
        THEN [id |-> known, absent |-> FALSE, requests |-> <<>>,
              fields |-> ghFields, next |-> nextId, failed |-> 0]
        ELSE IF ~okMut
        THEN [id |-> 0, absent |-> TRUE, requests |-> <<mutation(FALSE)>>,
              fields |-> ghFields, next |-> nextId, failed |-> 1]
        ELSE IF ~okFetch
        THEN [id |-> 0, absent |-> TRUE,
              requests |-> <<mutation(TRUE), query(FALSE)>>,
              fields |-> appended, next |-> nextId + 1, failed |-> 1]
        ELSE [id |-> OptionId(updated.options, value), absent |-> TRUE,
              requests |-> <<mutation(TRUE), query(TRUE)>>,
              fields |-> appended, next |-> nextId + 1, failed |-> 0]

\* the update sent only for an option the fetched field already had
SetOption_known_only(field, value, r, item, okMut, okFetch, okUpd) ==
    LET found == find_option_id(field, value, r, item, okMut, okFetch)
        call == [row |-> r, field |-> field, value |-> value,
                 absent |-> found.absent, id |-> found.id]
        update == Request("update_field_value", r, item, field.id, found.id, okUpd)
    IN  IF found.id # 0 /\ ~found.absent
        THEN Effect(Append(found.requests, update), found.fields, found.next,
                    found.failed + Failed(okUpd), <<call>>)
        ELSE Effect(found.requests, found.fields, found.next, found.failed,
                    <<call>>)

\* the update sent without the test of option_id
SetOption_unchecked(field, value, r, item, okMut, okFetch, okUpd) ==
    LET found == find_option_id(field, value, r, item, okMut, okFetch)
        call == [row |-> r, field |-> field, value |-> value,
                 absent |-> found.absent, id |-> found.id]
        update == Request("update_field_value", r, item, field.id, found.id, okUpd)
    IN  Effect(Append(found.requests, update), found.fields, found.next,
               found.failed + Failed(okUpd), <<call>>)

\* option_id = find_option_id(...); if option_id: update_field_value(...)
SetOption(field, value, r, item, okMut, okFetch, okUpd) ==
    LET found == find_option_id(field, value, r, item, okMut, okFetch)
        call == [row |-> r, field |-> field, value |-> value,
                 absent |-> found.absent, id |-> found.id]
        update == Request("update_field_value", r, item, field.id, found.id, okUpd)
    IN  IF found.id # 0
        THEN Effect(Append(found.requests, update), found.fields, found.next,
                    found.failed + Failed(okUpd), <<call>>)
        ELSE Effect(found.requests, found.fields, found.next, found.failed,
                    <<call>>)

\* handle_date_field
handle_date_field(field_name, field_value, r, item, okUpd) ==
    LET project_fields == analysis_results.project_fields
        key == Lower(field_name)
        date_value == ParseDate(field_value)
    IN  IF key \notin DOMAIN project_fields THEN NoEffect
        ELSE IF project_fields[key].dataType # "DATE" THEN NoEffect
        ELSE IF date_value = <<>> THEN NoEffect
        ELSE Effect(<<Request("update_field_value", r, item,
                              project_fields[key].id, date_value, okUpd)>>,
                    ghFields, nextId, Failed(okUpd), <<>>)

SkippedColumns == {Lower(sTitle), Lower(sBody), Lower(sAssignees),
                   Lower(sLabels), Lower(sMilestone)}

\* the status branch of the three field loops
StatusColumn(field_value, r, item, okMut, okFetch, okUpd) ==
    LET project_fields == analysis_results.project_fields
    IN  IF Lower(sStatus) \in DOMAIN project_fields
        THEN SetOption(project_fields[Lower(sStatus)], field_value, r, item,
                       okMut, okFetch, okUpd)
        ELSE NoEffect

\* which fields the "other fields" branch of the loops sets
IsSettable(field) == field.dataType = "SINGLE_SELECT"

\* the "other fields" branch of the three field loops
OtherColumn(field_name, field_value, r, item, okMut, okFetch, okUpd) ==
    LET project_fields == analysis_results.project_fields
        key == Lower(field_name)
    IN  IF key \in DOMAIN project_fields /\ IsSettable(project_fields[key])
        THEN SetOption(project_fields[key], field_value, r, item,
                       okMut, okFetch, okUpd)
        ELSE NoEffect

\* create_sample_issue, first loop over the first row's columns
SampleFirstLoop(field_name, field_value, item, okMut, okFetch, okUpd) ==
    IF \/ Lower(field_name) \in SkippedColumns
       \/ field_value = <<>>
       \/ field_name \in fields_to_create
    THEN NoEffect
    ELSE IF Lower(field_name) = Lower(sStatus)
    THEN StatusColumn(field_value, 1, item, okMut, okFetch, okUpd)
    ELSE IF Lower(field_name) = Lower(sEndDate)
    THEN handle_date_field(field_name, field_value, 1, item, okUpd)
    ELSE OtherColumn(field_name, field_value, 1, item, okMut, okFetch, okUpd)

\* create_sample_issue, second loop over the first row's columns
SampleSecondLoop(field_name, field_value, item, okMut, okFetch, okUpd) ==
    IF \/ Lower(field_name) \in SkippedColumns
       \/ field_value = <<>>
       \/ field_name \in fields_to_create
    THEN NoEffect
    ELSE IF Lower(field_name) = Lower(sStatus)
    THEN StatusColumn(field_value, 1, item, okMut, okFetch, okUpd)
    ELSE OtherColumn(field_name, field_value, 1, item, okMut, okFetch, okUpd)

\* create_issues, the loop over a row's columns
RowLoop(field_name, field_value, r, item, okMut, okFetch, okUpd) ==
    IF \/ Lower(field_name) \in SkippedColumns
       \/ field_value = <<>>
    THEN NoEffect
    ELSE IF Lower(field_name) = Lower(sStatus)
    THEN StatusColumn(field_value, r, item, okMut, okFetch, okUpd)
    ELSE IF Lower(field_name) = Lower(sEndDate)
    THEN handle_date_field(field_name, field_value, r, item, okUpd)
    ELSE OtherColumn(field_name, field_value, r, item, okMut, okFetch, okUpd)

\* GET /repos/{owner}/{repo}/milestones is sent without a state parameter,
\* and GitHub then lists the open milestones only
ListMilestones(milestones) ==
    SelectSeq(milestones, LAMBDA m : m.state = "open")

MilestoneNumber(listed, title) ==
    LET hit == First({i \in 1..Len(listed) : listed[i]["title"] = title})
    IN  IF hit = 0 THEN 0 ELSE listed[hit].number

\* GitHub: POST /milestones is refused (422) for a title a milestone has
ServerAcceptsMilestone(milestones, title) ==
    \A i \in 1..Len(milestones) : milestones[i]["title"] # title

SetIssueMilestone(issues, issue_number, number) ==
    [i \in 1..Len(issues) |->
        IF issues[i].number = issue_number
        THEN [issues[i] EXCEPT !.milestone = number]
        ELSE issues[i]]

MilestoneEffect(reqs, milestones, issues, failed, result) ==
    [requests |-> reqs, milestones |-> milestones, issues |-> issues,
     failed |-> failed, result |-> result]

\* assign_milestone(issue_number, milestone_title), for a non-empty title
assign_milestone(issue_number, milestone_title, r, okGet, okPost, okPatch) ==
    LET number == MilestoneNumber(ListMilestones(ghMilestones), milestone_title)
        accepted == okPost /\ ServerAcceptsMilestone(ghMilestones, milestone_title)
        created == Len(ghMilestones) + 1
        get(ok) == Request("list_milestones", r, 0, 0, 0, ok)
        post(ok) == Request("create_milestone", r, 0, milestone_title, 0, ok)
        patch(n) == Request("patch_issue", r, 0, issue_number, n, okPatch)
        Attach(reqs, milestones, n, failed) ==
            MilestoneEffect(Append(reqs, patch(n)), milestones,
                IF okPatch THEN SetIssueMilestone(ghIssues, issue_number, n)
                           ELSE ghIssues,
                failed + Failed(okPatch), okPatch)
    IN  IF ~okGet
        THEN MilestoneEffect(<<get(FALSE)>>, ghMilestones, ghIssues, 1, FALSE)
        ELSE IF number # 0
        THEN Attach(<<get(TRUE)>>, ghMilestones, number, 0)
        ELSE IF ~accepted
        THEN MilestoneEffect(<<get(TRUE), post(FALSE)>>, ghMilestones, ghIssues,
                             Failed(okPost), FALSE)
        ELSE Attach(<<get(TRUE), post(TRUE)>>,
                    Append(ghMilestones, Milestone(created, milestone_title, "open")),
                    created, 0)

\* create_issue's answer: the issue GitHub now holds
NewIssue(r, title) ==
    [number |-> Len(ghIssues) + 1, row |-> r, title |-> title, milestone |-> 0]

Apply(e) ==
    /\ requests' = requests \o e.requests
    /\ ghFields' = e.fields
    /\ nextId' = e.next
    /\ failures' = failures + e.failed
    /\ option_calls' = option_calls \o e.calls

ApplyMilestone(m) ==
    /\ requests' = requests \o m.requests
    /\ ghMilestones' = m.milestones
    /\ ghIssues' = m.issues
    /\ failures' = failures + m.failed

\* ----------------------------------------------------- create_sample_issue
SampleCreateIssue ==
    /\ pc = "sample_create"
    /\ LET title == safe_get(csv_headers, csv_rows[1], sTitle)
       IN  \E ok \in Responses(0) :
            /\ requests' = Append(requests,
                              Request("create_issue", 1, 0, title,
                                      RowPayload(csv_headers, csv_rows[1]), ok))
            /\ failures' = failures + Failed(ok)
            /\ IF ok
               THEN /\ ghIssues' = Append(ghIssues, NewIssue(1, title))
                    /\ issue_data' = Len(ghIssues) + 1
                    /\ pc' = "sample_add" /\ exit_code' = exit_code
               ELSE /\ UNCHANGED <<ghIssues, issue_data>>
                    /\ Exit(1)
    /\ UNCHANGED <<validatorVars, dumpVars, prunerVars, csvVars, continue_choice, ghFields, ghMilestones, ghItems, nextId,
                   analysis_results, fields_to_create, row_index, col_index,
                   item_id, sample_result, countVars, option_calls>>

SampleAddToProject ==
    /\ pc = "sample_add"
    /\ \E ok \in Responses(0) :
        /\ requests' = Append(requests,
                          Request("add_item", 1, 0, issue_data, 0, ok))
        /\ failures' = failures + Failed(ok)
        /\ IF ok
           THEN /\ ghItems' = Append(ghItems, [id |-> nextId, issue |-> issue_data])
                /\ item_id' = nextId
                /\ nextId' = nextId + 1
                /\ pc' = "sample_milestone" /\ exit_code' = exit_code
           ELSE /\ UNCHANGED <<ghItems, item_id, nextId>>
                /\ Exit(1)
    /\ UNCHANGED <<validatorVars, dumpVars, prunerVars, csvVars, continue_choice, ghFields, ghMilestones, ghIssues,
                   analysis_results, fields_to_create, row_index, col_index,
                   issue_data, sample_result, countVars, option_calls>>

SampleMilestone ==
    /\ pc = "sample_milestone"
    /\ LET milestone == safe_get(csv_headers, csv_rows[1], sMilestone)
       IN  IF milestone = <<>>
           THEN UNCHANGED <<requests, ghMilestones, ghIssues, failures>>
           ELSE \E okGet \in Responses(0) :
                \E okPost \in Responses(Failed(okGet)) :
                \E okPatch \in Responses(Failed(okGet) + Failed(okPost)) :
                    ApplyMilestone(assign_milestone(issue_data, milestone, 1,
                                                    okGet, okPost, okPatch))
    /\ pc' = "sample_fields_1"
    /\ col_index' = 1
    /\ UNCHANGED <<validatorVars, dumpVars, prunerVars, csvVars, continue_choice, ghFields, ghItems, nextId, exit_code,
                   analysis_results, fields_to_create, row_index, issue_data,
                   item_id, sample_result, countVars, option_calls>>

SampleFields1 ==
    /\ pc = "sample_fields_1"
    /\ \E okMut \in Responses(0) :
       \E okFetch \in Responses(Failed(okMut)) :
       \E okUpd \in Responses(Failed(okMut) + Failed(okFetch)) :
          Apply(SampleFirstLoop(csv_headers[col_index], csv_rows[1][col_index],
                                item_id, okMut, okFetch, okUpd))
    /\ IF col_index < Len(csv_headers)
       THEN pc' = pc /\ col_index' = col_index + 1
       ELSE pc' = "sample_fields_2" /\ col_index' = 1
    /\ UNCHANGED <<validatorVars, dumpVars, prunerVars, csvVars, continue_choice, ghMilestones, ghIssues, ghItems, exit_code,
                   analysis_results, fields_to_create, row_index, issue_data,
                   item_id, sample_result, countVars>>

SampleFields2 ==
    /\ pc = "sample_fields_2"
    /\ \E okMut \in Responses(0) :
       \E okFetch \in Responses(Failed(okMut)) :
       \E okUpd \in Responses(Failed(okMut) + Failed(okFetch)) :
          Apply(SampleSecondLoop(csv_headers[col_index], csv_rows[1][col_index],
                                 item_id, okMut, okFetch, okUpd))
    /\ IF col_index < Len(csv_headers)
       THEN /\ pc' = pc /\ col_index' = col_index + 1
            /\ sample_result' = sample_result
       ELSE /\ pc' = "confirm" /\ col_index' = 0
            /\ sample_result' = [success |-> TRUE, issue_number |-> issue_data]
    /\ UNCHANGED <<validatorVars, dumpVars, prunerVars, csvVars, continue_choice, ghMilestones, ghIssues, ghItems, exit_code,
                   analysis_results, fields_to_create, row_index, issue_data,
                   item_id, countVars>>

\* ------------------------------------------------------------ main, the end
\* "Would you like to continue creating all issues?"; create_issues starts
\* after the first row when it is given the sample's issue number
\* a prompt that takes any answer for a yes
Continues_any(answer) == TRUE

\* if continue_choice not in ["yes", "y"]: sys.exit(0)
Continues(answer) == answer = "yes"

\* a create_issues that is not told the sample's issue number
Confirm_from_first ==
    /\ pc = "confirm"
    /\ \E answer \in {"yes", "no"} :
          IF Continues(answer)
          THEN /\ continue_choice' = answer
               /\ pc' = "create_issues" /\ exit_code' = exit_code
               /\ row_index' = 1
          ELSE /\ continue_choice' = answer
               /\ Exit(0)
               /\ row_index' = row_index
    /\ UNCHANGED <<validatorVars, dumpVars, prunerVars, csvVars, ghVars, requests, failures,
                   analysis_results, fields_to_create, col_index, issue_data,
                   item_id, sample_result, countVars, option_calls>>

Confirm ==
    /\ pc = "confirm"
    /\ \E answer \in {"yes", "no"} :
          IF Continues(answer)
          THEN /\ continue_choice' = answer
               /\ pc' = "create_issues" /\ exit_code' = exit_code
               /\ row_index' = (IF sample_result.issue_number # 0 THEN 1 ELSE 0) + 1
          ELSE /\ continue_choice' = answer
               /\ Exit(0)
               /\ row_index' = row_index
    /\ UNCHANGED <<validatorVars, dumpVars, prunerVars, csvVars, ghVars, requests, failures, analysis_results,
                   fields_to_create, col_index, issue_data, item_id,
                   sample_result, countVars, option_calls>>

\* ---------------------------------------------------------- create_issues
\* a break in place of the loop's continue
NextRow_break ==
    /\ pc' = "create_issues"
    /\ row_index' = Len(csv_rows) + 1
    /\ col_index' = 0

\* continue, or the end of the loop body: on to the next row
NextRow ==
    /\ pc' = "create_issues"
    /\ row_index' = row_index + 1
    /\ col_index' = 0

\* a loop body that goes from the created issue straight to its milestone
RowCreateIssue_skip_add ==
    /\ pc = "create_issues"
    /\ row_index <= Len(csv_rows)
    /\ LET title == safe_get(csv_headers, csv_rows[row_index], sTitle)
       IN  IF title = <<>>
           THEN /\ skipped_count' = skipped_count + 1
                /\ NextRow
                /\ UNCHANGED <<requests, failures, ghIssues, issue_data>>
           ELSE \E ok \in Responses(0) :
                /\ requests' = Append(requests,
                        Request("create_issue", row_index, 0, title,
                            RowPayload(csv_headers, csv_rows[row_index]), ok))
                /\ failures' = failures + Failed(ok)
                /\ IF ok
                   THEN /\ ghIssues' = Append(ghIssues, NewIssue(row_index, title))
                        /\ issue_data' = Len(ghIssues) + 1
                        /\ pc' = "milestone"
                        /\ UNCHANGED <<row_index, col_index, skipped_count>>
                   ELSE /\ skipped_count' = skipped_count + 1
                        /\ NextRow
                        /\ UNCHANGED <<ghIssues, issue_data>>
    /\ UNCHANGED <<validatorVars, dumpVars, prunerVars, csvVars, continue_choice, ghFields,
                   ghMilestones, ghItems, nextId, exit_code, analysis_results,
                   fields_to_create, item_id, sample_result, created_count,
                   option_calls>>

\* the start of create_issues' loop body: the title, then create_issue
RowCreateIssue ==
    /\ pc = "create_issues"
    /\ row_index <= Len(csv_rows)
    /\ LET title == safe_get(csv_headers, csv_rows[row_index], sTitle)
       IN  IF title = <<>>
           THEN /\ skipped_count' = skipped_count + 1
                /\ NextRow
                /\ UNCHANGED <<requests, failures, ghIssues, issue_data>>
           ELSE \E ok \in Responses(0) :
                /\ requests' = Append(requests,
                        Request("create_issue", row_index, 0, title,
                            RowPayload(csv_headers, csv_rows[row_index]), ok))
                /\ failures' = failures + Failed(ok)
                /\ IF ok
                   THEN /\ ghIssues' = Append(ghIssues, NewIssue(row_index, title))
                        /\ issue_data' = Len(ghIssues) + 1
                        /\ pc' = "add_to_project"
                        /\ UNCHANGED <<row_index, col_index, skipped_count>>
                   ELSE /\ skipped_count' = skipped_count + 1
                        /\ NextRow
                        /\ UNCHANGED <<ghIssues, issue_data>>
    /\ UNCHANGED <<validatorVars, dumpVars, prunerVars, csvVars, continue_choice, ghFields, ghMilestones, ghItems, nextId, exit_code,
                   analysis_results, fields_to_create, item_id, sample_result,
                   created_count, option_calls>>

\* add_issue_to_project failing undoes the row's issue
RowAddToProject_rollback ==
    /\ pc = "add_to_project"
    /\ \E ok \in Responses(0) :
        /\ requests' = Append(requests,
                          Request("add_item", row_index, 0, issue_data, 0, ok))
        /\ failures' = failures + Failed(ok)
        /\ IF ok
           THEN /\ ghItems' = Append(ghItems, [id |-> nextId, issue |-> issue_data])
                /\ item_id' = nextId
                /\ nextId' = nextId + 1
                /\ pc' = "milestone"
                /\ UNCHANGED <<row_index, col_index, skipped_count, ghIssues>>
           ELSE /\ skipped_count' = skipped_count + 1
                /\ NextRow
                /\ ghIssues' = SubSeq(ghIssues, 1, Len(ghIssues) - 1)
                /\ UNCHANGED <<ghItems, item_id, nextId>>
    /\ UNCHANGED <<validatorVars, dumpVars, prunerVars, csvVars, continue_choice, ghFields, ghMilestones, exit_code,
                   analysis_results, fields_to_create, issue_data,
                   sample_result, created_count, option_calls>>

\* a failed add_issue_to_project that is logged and not acted on
RowAddToProject_continue ==
    /\ pc = "add_to_project"
    /\ \E ok \in Responses(0) :
        /\ requests' = Append(requests,
                          Request("add_item", row_index, 0, issue_data, 0, ok))
        /\ failures' = failures + Failed(ok)
        /\ IF ok
           THEN /\ ghItems' = Append(ghItems, [id |-> nextId, issue |-> issue_data])
                /\ item_id' = nextId
                /\ nextId' = nextId + 1
           ELSE UNCHANGED <<ghItems, item_id, nextId>>
        /\ pc' = "milestone"
        /\ UNCHANGED <<row_index, col_index, skipped_count>>
    /\ UNCHANGED <<validatorVars, dumpVars, prunerVars, csvVars, continue_choice, ghFields,
                   ghMilestones, ghIssues, exit_code, analysis_results,
                   fields_to_create, issue_data, sample_result, created_count,
                   option_calls>>

RowAddToProject ==
    /\ pc = "add_to_project"
    /\ \E ok \in Responses(0) :
        /\ requests' = Append(requests,
                          Request("add_item", row_index, 0, issue_data, 0, ok))
        /\ failures' = failures + Failed(ok)
        /\ IF ok
           THEN /\ ghItems' = Append(ghItems, [id |-> nextId, issue |-> issue_data])
                /\ item_id' = nextId
                /\ nextId' = nextId + 1
                /\ pc' = "milestone"
                /\ UNCHANGED <<row_index, col_index, skipped_count>>
           ELSE /\ skipped_count' = skipped_count + 1
                /\ NextRow
                /\ UNCHANGED <<ghItems, item_id, nextId>>
    /\ UNCHANGED <<validatorVars, dumpVars, prunerVars, csvVars, continue_choice, ghFields, ghMilestones, ghIssues, exit_code,
                   analysis_results, fields_to_create, issue_data,
                   sample_result, created_count, option_calls>>

RowMilestone ==
    /\ pc = "milestone"
    /\ LET milestone == safe_get(csv_headers, csv_rows[row_index], sMilestone)
       IN  IF milestone = <<>>
           THEN UNCHANGED <<requests, ghMilestones, ghIssues, failures>>
           ELSE \E okGet \in Responses(0) :
                \E okPost \in Responses(Failed(okGet)) :
                \E okPatch \in Responses(Failed(okGet) + Failed(okPost)) :
                    ApplyMilestone(assign_milestone(issue_data, milestone,
                                        row_index, okGet, okPost, okPatch))
    /\ pc' = "fields"
    /\ col_index' = 1
    /\ UNCHANGED <<validatorVars, dumpVars, prunerVars, csvVars, continue_choice, ghFields, ghItems, nextId, exit_code,
                   analysis_results, fields_to_create, row_index, issue_data,
                   item_id, sample_result, countVars, option_calls>>

RowFields ==
    /\ pc = "fields"
    /\ \E okMut \in Responses(0) :
       \E okFetch \in Responses(Failed(okMut)) :
       \E okUpd \in Responses(Failed(okMut) + Failed(okFetch)) :
          Apply(RowLoop(csv_headers[col_index], csv_rows[row_index][col_index],
                        row_index, item_id, okMut, okFetch, okUpd))
    /\ IF col_index < Len(csv_headers)
       THEN /\ pc' = pc /\ col_index' = col_index + 1
            /\ row_index' = row_index
       ELSE NextRow
    /\ UNCHANGED <<validatorVars, dumpVars, prunerVars, csvVars, continue_choice, ghMilestones, ghIssues, ghItems, exit_code,
                   analysis_results, fields_to_create, issue_data, item_id,
                   sample_result, countVars>>

\* a main that exits with code 1 when create_issues skipped a row
Finish_strict ==
    /\ pc = "create_issues"
    /\ row_index > Len(csv_rows)
    /\ Exit(IF skipped_count > 0 THEN 1 ELSE 0)
    /\ UNCHANGED <<validatorVars, dumpVars, prunerVars, csvVars, continue_choice, ghVars,
                   requests, failures, analysis_results, fields_to_create,
                   rowVars, sample_result, countVars, option_calls>>

\* create_issues returns success and main falls off its end
Finish ==
    /\ pc = "create_issues"
    /\ row_index > Len(csv_rows)
    /\ Exit(0)
    /\ UNCHANGED <<validatorVars, dumpVars, prunerVars, csvVars, continue_choice, ghVars, requests, failures, analysis_results,
                   fields_to_create, rowVars, sample_result, countVars,
                   option_calls>>

Next ==
    \/ LoadConfig
    \/ ValidateInputs
    \/ CheckAccess
    \/ Analyze
    \/ ProcessFields
    \/ SampleCreateIssue
    \/ SampleAddToProject
    \/ SampleMilestone
    \/ SampleFields1
    \/ SampleFields2
    \/ Confirm
    \/ RowCreateIssue
    \/ RowAddToProject
    \/ RowMilestone
    \/ RowFields
    \/ Finish

Spec == Init /\ [][Next]_vars

\* ============================================== validator.validate_field_values
\* the issue pipeline's variables while another tool runs
IssuesIdle ==
    /\ token_loaded = FALSE
    /\ csv_exists = FALSE
    /\ urls_valid = FALSE
    /\ csv_headers = <<>>
    /\ csv_rows = <<>>
    /\ ghFields = <<>>
    /\ ghMilestones = <<>>
    /\ ghIssues = <<>>
    /\ ghItems = <<>>
    /\ nextId = 20
    /\ analysis_results = AnalysisFailed
    /\ fields_to_create = {}
    /\ row_index = 0
    /\ col_index = 0
    /\ issue_data = 0
    /\ item_id = 0
    /\ sample_result = NoResult
    /\ continue_choice = ""
    /\ created_count = 0
    /\ skipped_count = 0
    /\ option_calls = <<>>

\* a string of n characters
StringOfLen(n) == [i \in 1..n |-> "x"]

\* the i-th of a list's distinct short values: the two digits of i
ShortValue(i) == <<Digits[(i \div 10) + 1], Digits[(i % 10) + 1]>>

\* the lengths of the field names and the sizes of the value lists tried:
\* around the limits the function tests
NameLengths == {0, 1, 49, 50, 51}
ListSizes == {0, 1, 2, 49, 50, 51}

\* a list of n values: all different or all the same, with a value of
\* longLen characters at position longAt when longAt is in 1..n
ValueList(n, distinct, longAt, longLen) ==
    [i \in 1..n |->
        IF i = longAt THEN StringOfLen(longLen)
        ELSE IF distinct THEN ShortValue(i) ELSE <<"v">>]

FieldValueLists ==
    {ValueList(n, distinct, longAt, longLen) :
        n \in ListSizes, distinct \in BOOLEAN, longAt \in {0, 1, 2, 51},
        longLen \in {50, 51}}

\* validate_field_values(field_name, field_values): (is_valid, message), the
\* message by the test that produced it, "" for None
validate_field_values(field_name, field_values) ==
    IF field_values = <<>>
    THEN [is_valid |-> TRUE, message |-> ""]
    ELSE IF Len(field_name) > 50
    THEN [is_valid |-> FALSE, message |-> "field name exceeds limit"]
    ELSE IF Len(field_values) > 50
    THEN [is_valid |-> FALSE, message |-> "unique values exceed limit"]
    ELSE IF \E i \in 1..Len(field_values) : Len(field_values[i]) > 50
    THEN [is_valid |-> FALSE, message |-> "option exceeds limit"]
    ELSE [is_valid |-> TRUE, message |-> ""]

InitValidator ==
    /\ IssuesIdle
    /\ PrunerIdle
    /\ DumpIdle
    /\ requests = <<>>
    /\ failures = 0
    /\ exit_code = -1
    /\ pc = "validate_field_values"
    /\ vf_field_name \in {StringOfLen(n) : n \in NameLengths}
    /\ vf_field_values \in FieldValueLists
    /\ vf_result = <<>>

\* a call of validate_field_values
ValidateFieldValues ==
    /\ pc = "validate_field_values"
    /\ vf_result' = validate_field_values(vf_field_name, vf_field_values)
    /\ pc' = "returned"
    /\ UNCHANGED <<issuesVars, prunerVars, dumpVars, requests, failures,
                   exit_code, vf_field_name, vf_field_values>>

NextValidator == ValidateFieldValues

SpecValidator == InitValidator /\ [][NextValidator]_vars

\* ======================================================= pruner.run_pruner
\* items(first: 100, after: $cursor) and views(first: 20)
ItemsPerPage == 100
ViewsFirst == 20

\* GitHub: the nodes of a connection after the cursor, at most n of them, and
\* its pageInfo
PageAfter(nodes, after, n) ==
    SubSeq(nodes, after + 1, IF Len(nodes) < after + n THEN Len(nodes) ELSE after + n)

HasNextPage(nodes, after, n) == after + n < Len(nodes)

\* a Project item holding an issue; age: the days since its updatedAt
IssueItem(number, closed, closed_reason, status, age, workstream) ==
    [is_issue |-> TRUE, number |-> number, closed |-> closed,
     closed_reason |-> closed_reason, status |-> status, age |-> age,
     workstream |-> workstream]

\* a Project item without an issue: a draft
DraftItem ==
    [is_issue |-> FALSE, number |-> 0, closed |-> FALSE, closed_reason |-> "",
     status |-> "", age |-> 0, workstream |-> ""]

\* the Project's i-th item
ProjectItem(i) ==
    CASE i = 1 -> IssueItem(i, TRUE, "not_planned", "Todo", 40, "A")
      [] i = 2 -> IssueItem(i, TRUE, "completed", "Done", 30, "A")
      [] i = 3 -> IssueItem(i, TRUE, "completed", "Done", 1, "A")
      [] i = 4 -> DraftItem
      [] i = 5 -> IssueItem(i, TRUE, "completed", "Done", 50, "B")
      [] i = 6 -> IssueItem(i, TRUE, "completed", "Done", 50, "B")
      [] i = 101 -> IssueItem(i, TRUE, "completed", "Done", 20, "A")
      [] i = 201 -> IssueItem(i, TRUE, "not_planned", "Todo", 5, "B")
      [] OTHER -> IssueItem(i, FALSE, "", "Todo", 2, "B")

ProjectView(i) == [id |-> i, number |-> i]

\* the sizes of the Projects tried: around the sizes of the pages
ItemCounts == {0, 2, 4, 101, 201}
ViewCounts == {0, 1, 2, 20, 21}

\* the selections the configuration may hold: views of the Project
ViewSelections(n) ==
    {sel \in {<<>>, <<1>>, <<2, 1>>} : \A i \in 1..Len(sel) : sel[i] <= n}

PrunerRequest(op, a, b, status) ==
    [op |-> op, row |-> 0, item |-> 0, a |-> a, b |-> b,
     ok |-> status \in {200, 201}, status |-> status]

\* the status codes a request may be answered with: a failing one only while
\* the run's budget of failed responses lasts
Statuses(good, bad, used) ==
    good \cup (IF failures + used < MaxFailures THEN bad ELSE {})

FailedStatus(status) == IF status \in {200, 201} THEN 0 ELSE 1

InitPruner ==
    /\ IssuesIdle
    /\ ValidatorIdle
    /\ DumpIdle
    /\ requests = <<>>
    /\ failures = 0
    /\ exit_code = -1
    /\ pc = "pruner_main"
    /\ \E n \in ItemCounts : ghProjectItems = [i \in 1..n |-> ProjectItem(i)]
    /\ \E n \in ViewCounts :
        /\ ghViews = [i \in 1..n |-> ProjectView(i)]
        /\ selected_views \in ViewSelections(n)
    /\ ghLabelled = {}
    /\ ghAuditPage \in BOOLEAN
    /\ dry_run \in BOOLEAN
    /\ args_dry_run \in BOOLEAN
    /\ done_age_days = 14
    /\ done_overflow_limit \in {1, 2, 3}
    /\ PrunerLocalsInit

\* main: --dry-run overrides the configuration's dry_run, then run_pruner
PrunerMain ==
    /\ pc = "pruner_main"
    /\ dry_run' = (IF args_dry_run THEN TRUE ELSE dry_run)
    /\ pc' = "run_pruner"
    /\ UNCHANGED <<issuesVars, validatorVars, dumpVars, prunerGhVars, selected_views,
                   args_dry_run, done_age_days, done_overflow_limit, all_views,
                   view_index, cursor, view_issues, all_issues, project_issues,
                   label_index, actions, pruner_result, requests, failures,
                   exit_code>>

\* get_project_fields, called first by get_project_issues and by
\* get_project_issues_by_views: sys.exit(1) when the query fails
PrunerGetProjectFields ==
    /\ pc = "run_pruner"
    /\ \E status \in Statuses({200}, {500}, 0) :
        /\ requests' = Append(requests, PrunerRequest("query_fields", 0, 0, status))
        /\ failures' = failures + FailedStatus(status)
        /\ IF status # 200
           THEN Exit(1)
           ELSE /\ pc' = (IF selected_views # <<>> THEN "get_views" ELSE "get_issues")
                /\ exit_code' = exit_code
    /\ UNCHANGED <<issuesVars, validatorVars, dumpVars, prunerVars>>

\* get_project_views: one query, views(first: 20); [] when it fails
get_project_views(status) ==
    IF status = 200 THEN FirstPage(ghViews, ViewsFirst) ELSE <<>>

PrunerGetProjectViews ==
    /\ pc = "get_views"
    /\ \E status \in Statuses({200}, {500}, 0) :
        /\ requests' = Append(requests, PrunerRequest("query_views", 0, 0, status))
        /\ failures' = failures + FailedStatus(status)
        /\ all_views' = get_project_views(status)
    /\ view_index' = 1
    /\ pc' = "next_view"
    /\ UNCHANGED <<issuesVars, validatorVars, dumpVars, prunerGhVars, prunerConfig, cursor,
                   view_issues, all_issues, project_issues, label_index,
                   actions, pruner_result, exit_code>>

\* view_id_to_number.get(view_id), 0 for None
ViewNumber(views, view_id) ==
    LET hit == First({i \in 1..Len(views) : views[i].id = view_id})
    IN  IF hit = 0 THEN 0 ELSE views[hit].number

\* the issues of all_issues, the first of each number
UniqueIssues(found) ==
    LET numbered == [i \in 1..Len(found) |-> <<i, found[i]>>]
        firsts == SelectSeq(numbered, LAMBDA entry :
                      \A j \in 1..(entry[1] - 1) :
                          found[j].number # entry[2].number)
    IN  [k \in 1..Len(firsts) |-> firsts[k][2]]

\* get_project_issues_by_views, the head of the loop over view_ids: a view
\* without a number is skipped; after the last view the issues are made unique
PrunerNextView ==
    /\ pc = "next_view"
    /\ IF view_index > Len(selected_views)
       THEN /\ project_issues' = UniqueIssues(all_issues)
            /\ pc' = "label_not_planned"
            /\ label_index' = 1
            /\ UNCHANGED <<view_index, cursor, view_issues>>
       ELSE IF ViewNumber(all_views, selected_views[view_index]) = 0
       THEN /\ view_index' = view_index + 1
            /\ pc' = pc
            /\ UNCHANGED <<project_issues, label_index, cursor, view_issues>>
       ELSE /\ pc' = "view_page"
            /\ cursor' = 0
            /\ view_issues' = <<>>
            /\ UNCHANGED <<project_issues, label_index, view_index>>
    /\ UNCHANGED <<issuesVars, validatorVars, dumpVars, prunerGhVars, prunerConfig,
                   all_views, all_issues, actions, pruner_result, requests,
                   failures, exit_code>>

\* the issues among a page's nodes
IssuesOf(nodes) == SelectSeq(nodes, LAMBDA item : item.is_issue)

\* get_project_issues_by_views, one turn of a view's paging loop: a failed
\* request breaks the loop
PrunerViewPage ==
    /\ pc = "view_page"
    /\ \E status \in Statuses({200}, {500}, 0) :
        LET number == ViewNumber(all_views, selected_views[view_index])
            page == PageAfter(ghProjectItems, cursor, ItemsPerPage)
            more == HasNextPage(ghProjectItems, cursor, ItemsPerPage)
        IN  /\ requests' = Append(requests,
                              PrunerRequest("query_view_items", number, cursor, status))
            /\ failures' = failures + FailedStatus(status)
            /\ IF status = 200 /\ more
               THEN /\ view_issues' = view_issues \o IssuesOf(page)
                    /\ cursor' = cursor + ItemsPerPage
                    /\ pc' = pc
                    /\ UNCHANGED <<all_issues, view_index>>
               ELSE /\ view_issues' = <<>>
                    /\ all_issues' = all_issues \o view_issues \o
                            (IF status = 200 THEN IssuesOf(page) ELSE <<>>)
                    /\ cursor' = 0
                    /\ view_index' = view_index + 1
                    /\ pc' = "next_view"
    /\ UNCHANGED <<issuesVars, validatorVars, dumpVars, prunerGhVars, prunerConfig,
                   all_views, project_issues, label_index, actions,
                   pruner_result, exit_code>>

\* get_project_issues, one turn of its paging loop: sys.exit(1) when the
\* request fails
PrunerIssuesPage ==
    /\ pc = "get_issues"
    /\ \E status \in Statuses({200}, {500}, 0) :
        LET page == PageAfter(ghProjectItems, cursor, ItemsPerPage)
            more == HasNextPage(ghProjectItems, cursor, ItemsPerPage)
        IN  /\ requests' = Append(requests,
                              PrunerRequest("query_items", 0, cursor, status))
            /\ failures' = failures + FailedStatus(status)
            /\ IF status # 200
               THEN /\ Exit(1)
                    /\ UNCHANGED <<project_issues, cursor, label_index>>
               ELSE /\ project_issues' = project_issues \o IssuesOf(page)
                    /\ exit_code' = exit_code
                    /\ IF more
                       THEN /\ cursor' = cursor + ItemsPerPage
                            /\ pc' = pc
                            /\ label_index' = label_index
                       ELSE /\ cursor' = 0
                            /\ pc' = "label_not_planned"
                            /\ label_index' = 1
    /\ UNCHANGED <<issuesVars, validatorVars, dumpVars, prunerGhVars, prunerConfig,
                   all_views, view_index, view_issues, all_issues, actions,
                   pruner_result>>

\* apply_label(issue_number, label): the add-label request; on a 404 the
\* create-label request and then the add-label request again
apply_label(number, label, first, create, again) ==
    LET add(status) == PrunerRequest("add_label", number, label, status)
        made == PrunerRequest("create_label", 0, label, create)
        Answer(reqs, status) ==
            [requests |-> reqs,
             labelled |-> IF status \in {200, 201} THEN {<<number, label>>} ELSE {},
             failed |-> FailedStatus(first) +
                        (IF Len(reqs) > 1 THEN FailedStatus(create) ELSE 0) +
                        (IF Len(reqs) > 2 THEN FailedStatus(again) ELSE 0),
             result |-> status \in {200, 201}]
    IN  IF first = 404
        THEN IF create \notin {201, 422}
             THEN [Answer(<<add(first), made>>, create) EXCEPT !.result = FALSE,
                                                               !.labelled = {}]
             ELSE Answer(<<add(first), made, add(again)>>, again)
        ELSE Answer(<<add(first)>>, first)

not_planned_issues ==
    SelectSeq(project_issues,
              LAMBDA issue : issue.closed /\ issue.closed_reason = "not_planned")

\* status == done_status_value and updated_at < threshold_date
old_done_issues ==
    SelectSeq(project_issues,
              LAMBDA issue : issue.status = "Done" /\ issue.age > done_age_days)

\* list.sort by updated_at, oldest first; the sort is stable
InsertOldestFirst(sorted, issue) ==
    LET k == Cardinality({i \in 1..Len(sorted) : sorted[i].age >= issue.age})
    IN  SubSeq(sorted, 1, k) \o <<issue>> \o SubSeq(sorted, k + 1, Len(sorted))

RECURSIVE SortOldestFirst(_)
SortOldestFirst(list) ==
    IF list = <<>> THEN <<>>
    ELSE InsertOldestFirst(SortOldestFirst(SubSeq(list, 1, Len(list) - 1)),
                           list[Len(list)])

\* the workstreams of the Done issues, in the order they first appear
RECURSIVE WorkstreamsOf(_, _)
WorkstreamsOf(list, seen) ==
    IF list = <<>> THEN <<>>
    ELSE IF Head(list).workstream \in seen THEN WorkstreamsOf(Tail(list), seen)
    ELSE <<Head(list).workstream>> \o
         WorkstreamsOf(Tail(list), seen \cup {Head(list).workstream})

\* the newest Done issues of a workstream over the limit
OverflowOf_newest(done, workstream) ==
    LET mine == SortOldestFirst(SelectSeq(done, LAMBDA issue :
                                                issue.workstream = workstream))
        over == Len(mine) - done_overflow_limit
    IN  IF Len(mine) > done_overflow_limit
        THEN SubSeq(mine, Len(mine) - over + 1, Len(mine))
        ELSE <<>>

\* the oldest count - overflow_limit Done issues of a workstream over the limit
OverflowOf(done, workstream) ==
    LET mine == SortOldestFirst(SelectSeq(done, LAMBDA issue :
                                                issue.workstream = workstream))
        over == Len(mine) - done_overflow_limit
    IN  IF Len(mine) > done_overflow_limit
        THEN SubSeq(mine, 1, IF over > Len(mine) THEN Len(mine) ELSE over)
        ELSE <<>>

RECURSIVE Concat(_)
Concat(lists) == IF lists = <<>> THEN <<>> ELSE Head(lists) \o Concat(Tail(lists))

overflow_issues ==
    LET done == SelectSeq(project_issues, LAMBDA issue : issue.status = "Done")
        workstreams == WorkstreamsOf(done, {})
    IN  Concat([w \in 1..Len(workstreams) |-> OverflowOf(done, workstreams[w])])

\* a labelling loop that does not look at dry_run
LabelLoop_live(list, label, next) ==
    IF label_index > Len(list)
    THEN /\ pc' = next
         /\ label_index' = 1
         /\ UNCHANGED <<requests, failures, ghLabelled, actions>>
    ELSE \E first \in Statuses({200}, {404, 500}, 0) :
         \E create \in Statuses({201}, {422, 500}, FailedStatus(first)) :
         \E again \in Statuses({200}, {404, 500},
                               FailedStatus(first) + FailedStatus(create)) :
            LET issue == list[label_index]
                answer == apply_label(issue.number, label, first, create, again)
            IN  /\ requests' = requests \o answer.requests
                /\ failures' = failures + answer.failed
                /\ ghLabelled' = ghLabelled \cup answer.labelled
                /\ actions' = IF answer.result
                              THEN Append(actions, [issue |-> issue.number,
                                                    action |-> label])
                              ELSE actions
                /\ label_index' = label_index + 1
                /\ pc' = pc

\* one of run_pruner's three labelling loops: skipped in dry run mode, else a
\* turn applies the label to the list's next issue and records the action
LabelLoop(list, label, next) ==
    IF dry_run \/ label_index > Len(list)
    THEN /\ pc' = next
         /\ label_index' = 1
         /\ UNCHANGED <<requests, failures, ghLabelled, actions>>
    ELSE \E first \in Statuses({200}, {404, 500}, 0) :
         \E create \in Statuses({201}, {422, 500}, FailedStatus(first)) :
         \E again \in Statuses({200}, {404, 500},
                               FailedStatus(first) + FailedStatus(create)) :
            LET issue == list[label_index]
                answer == apply_label(issue.number, label, first, create, again)
            IN  /\ requests' = requests \o answer.requests
                /\ failures' = failures + answer.failed
                /\ ghLabelled' = ghLabelled \cup answer.labelled
                /\ actions' = IF answer.result
                              THEN Append(actions, [issue |-> issue.number,
                                                    action |-> label])
                              ELSE actions
                /\ label_index' = label_index + 1
                /\ pc' = pc

PrunerUnchangedByLabels ==
    UNCHANGED <<issuesVars, validatorVars, dumpVars, ghViews, ghProjectItems, ghAuditPage,
                prunerConfig, all_views, view_index, cursor, view_issues,
                all_issues, project_issues, pruner_result, exit_code>>

PrunerLabelNotPlanned ==
    /\ pc = "label_not_planned"
    /\ LabelLoop(not_planned_issues, "Not Planned", "label_old_done")
    /\ PrunerUnchangedByLabels

PrunerLabelOldDone ==
    /\ pc = "label_old_done"
    /\ LabelLoop(old_done_issues, "Archive", "label_overflow")
    /\ PrunerUnchangedByLabels

PrunerLabelOverflow ==
    /\ pc = "label_overflow"
    /\ LabelLoop(overflow_issues, "Archive", "audit_log")
    /\ PrunerUnchangedByLabels

\* update_audit_log: the page is read, then updated or created
update_audit_log(get, put) ==
    LET read == PrunerRequest("get_page", 0, "", get)
        write == PrunerRequest("put_page", 0, "", put)
    IN  IF get \in {200, 404}
        THEN [requests |-> <<read, write>>,
              page |-> ghAuditPage \/ put \in {200, 201},
              failed |-> FailedStatus(put)]
        ELSE [requests |-> <<read>>, page |-> ghAuditPage, failed |-> 1]

\* the end of run_pruner: the audit log, then the result main reports
PrunerUpdateAuditLog ==
    /\ pc = "audit_log"
    /\ IF ~dry_run /\ actions # <<>>
       THEN \E get \in Statuses({IF ghAuditPage THEN 200 ELSE 404}, {500}, 0) :
            \E put \in Statuses({IF ghAuditPage THEN 200 ELSE 201}, {500},
                               IF get = 500 THEN 1 ELSE 0) :
                LET log == update_audit_log(get, put)
                IN  /\ requests' = requests \o log.requests
                    /\ failures' = failures + log.failed
                    /\ ghAuditPage' = log.page
       ELSE UNCHANGED <<requests, failures, ghAuditPage>>
    /\ pruner_result' =
            [success |-> TRUE,
             not_planned_count |-> Len(not_planned_issues),
             archived_count |-> Len(old_done_issues) + Len(overflow_issues),
             total_processed |-> Len(project_issues)]
    /\ Exit(0)
    /\ UNCHANGED <<issuesVars, validatorVars, dumpVars, ghViews, ghProjectItems, ghLabelled,
                   prunerConfig, all_views, view_index, cursor, view_issues,
                   all_issues, project_issues, label_index, actions>>

NextPruner ==
    \/ PrunerMain
    \/ PrunerGetProjectFields
    \/ PrunerGetProjectViews
    \/ PrunerNextView
    \/ PrunerViewPage
    \/ PrunerIssuesPage
    \/ PrunerLabelNotPlanned
    \/ PrunerLabelOldDone
    \/ PrunerLabelOverflow
    \/ PrunerUpdateAuditLog

SpecPruner == InitPruner /\ [][NextPruner]_vars

\* ======================================================================= dump.py
\* the files and Projects dump.py is run on: the header row, the rows its
\* file is made of, and the names of the Project's fields
DumpInputs ==
    { [headers |-> <<sTitle, sStatus>>,
       pool |-> { <<sA, sTodo>>, <<sEmpty, sTodo>> },
       fields |-> <<sStatus>>],
      [headers |-> <<Lower(sTitle), Lower(sStatus), sMilestone>>,
       pool |-> { <<sA, sTodo, sA>>, <<sB, sEmpty, sA>>, <<sB, sTodo, sEmpty>> },
       fields |-> <<sStatus>>],
      [headers |-> <<sTitle, sStatus, sWorkstream, sNotes>>,
       pool |-> { <<sA, sTodo, sBackend, sText>> },
       fields |-> <<sStatus>>],
      [headers |-> <<sTitle, sStatus, sWorkstream, sNotes>>,
       pool |-> { <<sA, sTodo, sBackend, sText>> },
       fields |-> <<sStatus, sWorkstream, sNotes>>],
      [headers |-> <<sTitle, sStatus, Lower(sNotes), sMilestone>>,
       pool |-> { <<sA, sTodo, sText, sB>> },
       fields |-> <<sStatus, sNotes>>],
      [headers |-> <<sTitle, sBody>>,
       pool |-> { <<sA, sText>> },
       fields |-> <<sStatus>>] }

\* dry_run = not args.confirm_live
dump_dry_run == ~confirm_live

\* the answers to a GraphQL request: the HTTP status and whether the body
\* carries an errors array; only the first is a success on GitHub's side
GraphQLOk == [status |-> 200, errors |-> FALSE]

GraphQLResponses ==
    {GraphQLOk} \cup
    (IF failures < MaxFailures
     THEN {[status |-> 200, errors |-> TRUE], [status |-> 401, errors |-> FALSE]}
     ELSE {})

\* a request of dump.py, with what its caller took the answer for
DumpRequest(op, row, a, status, errors, ok) ==
    [op |-> op, row |-> row, item |-> 0, a |-> a, b |-> 0, ok |-> ok,
     status |-> status, errors |-> errors]

InitDump ==
    /\ IssuesIdle
    /\ ValidatorIdle
    /\ PrunerIdle
    /\ requests = <<>>
    /\ failures = 0
    /\ exit_code = -1
    /\ pc = "dump_main"
    /\ confirm_live \in BOOLEAN
    /\ \E input \in DumpInputs :
        /\ headers_in_csv = input.headers
        /\ dump_issues \in SeqsUpTo(input.pool, MaxRows - 1)
        /\ ghDumpFields = input.fields
    /\ ghDumpIssues = <<>>
    /\ ghDumpMilestones = <<>>
    /\ existing_fields = {}
    /\ confirm = ""
    /\ field_index = 0
    /\ issue_index = 0
    /\ milestone_cache = {}

\* get_project_id: sys.exit(1) on errors; without errors and without data the
\* subscript raises and the script ends with exit code 1 as well
DumpGetProjectId ==
    /\ pc = "dump_main"
    /\ \E response \in GraphQLResponses :
        LET ok == response = GraphQLOk
        IN  /\ requests' = Append(requests,
                    DumpRequest("query_project", 0, 0, response.status,
                                response.errors, ok))
            /\ failures' = failures + Failed(ok)
            /\ IF ok THEN pc' = "dump_get_fields" /\ exit_code' = exit_code
               ELSE Exit(1)
    /\ UNCHANGED <<issuesVars, validatorVars, prunerVars, dumpVars>>

\* get_project_fields: the fields by name
DumpGetProjectFields ==
    /\ pc = "dump_get_fields"
    /\ \E response \in GraphQLResponses :
        LET ok == response = GraphQLOk
        IN  /\ requests' = Append(requests,
                    DumpRequest("query_fields", 0, 0, response.status,
                                response.errors, ok))
            /\ failures' = failures + Failed(ok)
            /\ IF ok
               THEN /\ existing_fields' = Range(ghDumpFields)
                    /\ pc' = "dump_validate" /\ exit_code' = exit_code
               ELSE /\ existing_fields' = existing_fields
                    /\ Exit(1)
    /\ UNCHANGED <<issuesVars, validatorVars, prunerVars, confirm_live,
                   headers_in_csv, dump_issues, ghDumpFields, ghDumpIssues,
                   ghDumpMilestones, confirm, field_index, issue_index,
                   milestone_cache>>

whitelist == {Lower(sTitle), Lower(sBody), Lower(sAssignees), Lower(sMilestone),
              Lower(sStatus)}

required == {Lower(sTitle), Lower(sStatus)}

\* validate_csv_headers' unknown: the columns neither whitelisted nor, by
\* their exact name, among the Project's fields
unknown ==
    SelectSeq(headers_in_csv,
              LAMBDA h : Lower(h) \notin whitelist /\ h \notin existing_fields)

\* main reads the CSV file and takes the first row's keys; validate_csv_headers
\* up to its prompt
DumpValidateCsvHeaders ==
    /\ pc = "dump_validate"
    /\ IF dump_issues = <<>>
       THEN Exit(1) /\ issue_index' = issue_index
       ELSE IF required \ {Lower(headers_in_csv[i]) : i \in 1..Len(headers_in_csv)} # {}
       THEN Exit(1) /\ issue_index' = issue_index
       ELSE IF unknown # <<>>
       THEN pc' = "dump_confirm" /\ exit_code' = exit_code /\ issue_index' = issue_index
       ELSE pc' = "dump_issues_loop" /\ exit_code' = exit_code /\ issue_index' = 1
    /\ UNCHANGED <<issuesVars, validatorVars, prunerVars, requests, failures,
                   confirm_live, headers_in_csv, dump_issues, ghDumpFields,
                   ghDumpIssues, ghDumpMilestones, existing_fields, confirm,
                   field_index, milestone_cache>>

\* the prompt of validate_csv_headers: anything but "y" ends the script
DumpConfirm ==
    /\ pc = "dump_confirm"
    /\ \E answer \in {"y", "n", ""} :
        /\ confirm' = answer
        /\ IF answer # "y"
           THEN Exit(1) /\ field_index' = field_index
           ELSE pc' = "dump_create_fields" /\ exit_code' = exit_code
                /\ field_index' = 1
    /\ UNCHANGED <<issuesVars, validatorVars, prunerVars, requests, failures,
                   confirm_live, headers_in_csv, dump_issues, ghDumpFields,
                   ghDumpIssues, ghDumpMilestones, existing_fields, issue_index,
                   milestone_cache>>

\* create_custom_field: success is a status code of 200
dump_create_custom_field(name, response) ==
    LET ok == response.status = 200
    IN  [request |-> DumpRequest("create_field", 0, name, response.status,
                                 response.errors, ok),
         success |-> ok]

\* validate_csv_headers' loop over unknown
DumpCreateField ==
    /\ pc = "dump_create_fields"
    /\ IF field_index > Len(unknown)
       THEN /\ pc' = "dump_issues_loop" /\ exit_code' = exit_code
            /\ issue_index' = 1
            /\ UNCHANGED <<requests, failures, ghDumpFields, field_index>>
       ELSE IF dump_dry_run
       THEN /\ field_index' = field_index + 1
            /\ UNCHANGED <<requests, failures, ghDumpFields, issue_index, pc,
                           exit_code>>
       ELSE \E response \in GraphQLResponses :
            LET name == unknown[field_index]
                call == dump_create_custom_field(name, response)
            IN  /\ requests' = Append(requests, call.request)
                /\ failures' = failures + Failed(response = GraphQLOk)
                /\ ghDumpFields' = IF response = GraphQLOk
                                   THEN Append(ghDumpFields, name)
                                   ELSE ghDumpFields
                /\ IF call.success
                   THEN /\ field_index' = field_index + 1
                        /\ pc' = pc /\ exit_code' = exit_code
                   ELSE /\ field_index' = field_index
                        /\ Exit(1)
                /\ issue_index' = issue_index
    /\ UNCHANGED <<issuesVars, validatorVars, prunerVars, confirm_live,
                   headers_in_csv, dump_issues, ghDumpIssues, ghDumpMilestones,
                   existing_fields, confirm, milestone_cache>>

\* a create_issue that posts whatever dry_run is
dump_create_issue_live(title, dry, status) ==
    [requests |-> <<DumpRequest("create_issue", issue_index, title, status,
                                FALSE, status = 201)>>,
     created |-> IF status = 201 THEN <<title>> ELSE <<>>,
     success |-> status = 201]

\* create_issue: in a dry run the dummy node id and no request
dump_create_issue(title, dry, status) ==
    IF dry
    THEN [requests |-> <<>>, created |-> <<>>, success |-> TRUE]
    ELSE [requests |-> <<DumpRequest("create_issue", issue_index, title, status,
                                     FALSE, status = 201)>>,
          created |-> IF status = 201 THEN <<title>> ELSE <<>>,
          success |-> status = 201]

\* create_milestone: in a dry run the dummy milestone id and no request
dump_create_milestone(title, dry, status) ==
    IF dry
    THEN [requests |-> <<>>, created |-> <<>>, success |-> TRUE]
    ELSE [requests |-> <<DumpRequest("create_milestone", issue_index, title,
                                     status, FALSE, status = 201)>>,
          created |-> IF status = 201 THEN <<title>> ELSE <<>>,
          success |-> status = 201]

\* a turn of main's loop up to create_issue; after the last row the script ends
DumpCreateIssue ==
    /\ pc = "dump_issues_loop"
    /\ IF issue_index > Len(dump_issues)
       THEN /\ Exit(0)
            /\ UNCHANGED <<requests, failures, ghDumpIssues, issue_index>>
       ELSE LET title == Strip(safe_get(headers_in_csv, dump_issues[issue_index],
                                        sTitle))
            IN  IF title = <<>>
                THEN /\ issue_index' = issue_index + 1
                     /\ UNCHANGED <<requests, failures, ghDumpIssues, pc, exit_code>>
                ELSE \E status \in Statuses({201}, {422}, 0) :
                     LET call == dump_create_issue(title, dump_dry_run, status)
                     IN  /\ requests' = requests \o call.requests
                         /\ failures' = failures +
                                (IF call.success THEN 0 ELSE 1)
                         /\ ghDumpIssues' = ghDumpIssues \o call.created
                         /\ issue_index' = issue_index
                         /\ IF call.success
                            THEN pc' = "dump_milestone" /\ exit_code' = exit_code
                            ELSE Exit(1)
    /\ UNCHANGED <<issuesVars, validatorVars, prunerVars, confirm_live,
                   headers_in_csv, dump_issues, ghDumpFields, ghDumpMilestones,
                   existing_fields, confirm, field_index, milestone_cache>>

\* the rest of the turn: the milestone, created unless cached; the milestone
\* and the fields of the row are then logged only
DumpMilestone ==
    /\ pc = "dump_milestone"
    /\ LET milestone_title == Strip(safe_get(headers_in_csv,
                                             dump_issues[issue_index], sMilestone))
       IN  IF milestone_title = <<>> \/ milestone_title \in milestone_cache
           THEN /\ issue_index' = issue_index + 1
                /\ pc' = "dump_issues_loop" /\ exit_code' = exit_code
                /\ UNCHANGED <<requests, failures, ghDumpMilestones,
                               milestone_cache>>
           ELSE \E status \in Statuses({201}, {422}, 0) :
                LET call == dump_create_milestone(milestone_title, dump_dry_run,
                                                  status)
                IN  /\ requests' = requests \o call.requests
                    /\ failures' = failures + (IF call.success THEN 0 ELSE 1)
                    /\ ghDumpMilestones' = ghDumpMilestones \o call.created
                    /\ IF call.success
                       THEN /\ milestone_cache' =
                                    milestone_cache \cup {milestone_title}
                            /\ issue_index' = issue_index + 1
                            /\ pc' = "dump_issues_loop" /\ exit_code' = exit_code
                       ELSE /\ UNCHANGED <<milestone_cache, issue_index>>
                            /\ Exit(1)
    /\ UNCHANGED <<issuesVars, validatorVars, prunerVars, confirm_live,
                   headers_in_csv, dump_issues, ghDumpFields, ghDumpIssues,
                   existing_fields, confirm, field_index>>

NextDump ==
    \/ DumpGetProjectId
    \/ DumpGetProjectFields
    \/ DumpValidateCsvHeaders
    \/ DumpConfirm
    \/ DumpCreateField
    \/ DumpCreateIssue
    \/ DumpMilestone

SpecDump == InitDump /\ [][NextDump]_vars

\* ================================================================ claims
\* analyze_csv_and_project has just returned its report to main
Analysed == pc = "process_fields"
NonStandard(h) == Lower(h) \notin STANDARD_FIELDS
CustomHeaders == {h \in Range(csv_headers) : NonStandard(h)}
NewRequests == {k \in 1..Len(requests') : k > Len(requests)}
OptionNames(field) == {field.options[o].name : o \in 1..Len(field.options)}
HasFieldNamed(h) == \E i \in 1..Len(ghFields) : Lower(ghFields[i].name) = Lower(h)

\* the non-empty values of a column after trimming, read off the file
TrimmedValues(h) ==
    LET c == CHOOSE i \in 1..Len(csv_headers) : csv_headers[i] = h
    IN  {v \in {Strip(csv_rows[r][c]) : r \in 1..Len(csv_rows)} : v # <<>>}

\* C1: once an issue exists, every field the user approved exists on the
\* Project as a SINGLE_SELECT field of that name whose options include all
\* of the column's CSV values (the field is created before the first issue).
C1_FieldsCreatedBeforeIssues ==
    ghIssues # <<>> =>
        \A f \in fields_to_create :
            \E i \in 1..Len(ghFields) :
                /\ ghFields[i].name = f
                /\ ghFields[i].dataType = "SINGLE_SELECT"
                /\ TrimmedValues(f) \subseteq OptionNames(ghFields[i])

InBucket(h, b) ==
    CASE b = "missing_field" -> h \in DOMAIN analysis_results.missing_fields
      [] b = "missing_options" -> h \in DOMAIN analysis_results.missing_options
      [] b = "complete" ->
            /\ h \in Range(analysis_results.existing_custom_fields)
            /\ h \notin DOMAIN analysis_results.missing_options

BucketNames == {"missing_field", "missing_options", "complete"}

\* C2: the analyzer puts every non-standard header into exactly one of the
\* buckets missing-field, existing-missing-options, existing-complete.
C2_ExactlyOneBucket ==
    Analysed =>
        \A h \in CustomHeaders :
            Cardinality({b \in BucketNames : InBucket(h, b)}) = 1

C2_Witness ==
    /\ Analysed
    /\ \A b \in BucketNames : \E h \in CustomHeaders : InBucket(h, b)

ReportedMissing(h) ==
    IF h \in DOMAIN analysis_results.missing_options
    THEN analysis_results.missing_options[h]
    ELSE {}

\* C3: a column is an existing field iff some Project field has its name
\* ignoring case; for a matched SINGLE_SELECT field a CSV value is reported
\* as a missing option iff no fetched option has exactly that name.
C3_NameAndOptionMatching ==
    Analysed =>
        \A h \in CustomHeaders :
            /\ h \in Range(analysis_results.existing_custom_fields)
                  <=> HasFieldNamed(h)
            /\ LET fetched == analysis_results.project_fields
               IN  (Lower(h) \in DOMAIN fetched
                        /\ fetched[Lower(h)].dataType = "SINGLE_SELECT") =>
                     \A v \in TrimmedValues(h) :
                        v \in ReportedMissing(h)
                          <=> v \notin OptionNames(fetched[Lower(h)])

C3_Witness ==
    /\ Analysed
    /\ \E h \in CustomHeaders :
        /\ h \in Range(analysis_results.existing_custom_fields)
        /\ \A i \in 1..Len(ghFields) : ghFields[i].name # h
        /\ \E v \in ReportedMissing(h) :
            \E n \in OptionNames(analysis_results.project_fields[Lower(h)]) :
                Lower(n) = Lower(v) /\ n # v

\* C4 as claimed: every non-standard column without a matching Project field
\* is mapped by missing_fields to exactly its trimmed non-empty values.
C4_MissingFieldValues ==
    Analysed =>
        \A h \in CustomHeaders :
            ~HasFieldNamed(h) =>
                /\ h \in DOMAIN analysis_results.missing_fields
                /\ analysis_results.missing_fields[h] = TrimmedValues(h)

\* C4 amended: that holds for every such column whose name is not one of the
\* date names (end date, due date, start date, deadline); a date-named
\* column without a Project field is mapped to the marker "DATE FIELD".
C4_MissingFieldValuesAmended ==
    Analysed =>
        \A h \in CustomHeaders :
            ~HasFieldNamed(h) =>
                /\ h \in DOMAIN analysis_results.missing_fields
                /\ analysis_results.missing_fields[h] =
                      IF Lower(h) \in DATE_FIELDS THEN {sDateField}
                                                  ELSE TrimmedValues(h)

C4_Witness ==
    /\ Analysed
    /\ \E h \in CustomHeaders :
        /\ Lower(h) \notin DATE_FIELDS
        /\ h \in DOMAIN analysis_results.missing_fields
        /\ LET c == CHOOSE i \in 1..Len(csv_headers) : csv_headers[i] = h
           IN  /\ \E r \in 1..Len(csv_rows) :
                    /\ Strip(csv_rows[r][c]) # csv_rows[r][c]
                    /\ Strip(csv_rows[r][c]) \in analysis_results.missing_fields[h]
               /\ \E r1, r2 \in 1..Len(csv_rows) :
                    r1 # r2 /\ csv_rows[r1][c] = csv_rows[r2][c]
                            /\ csv_rows[r1][c] # <<>>

\* C5: a call of find_option_id that found the option absent, appended it
\* and returned id X is followed, for the same field argument and value, only
\* by calls that return X.
C5_SameIdOnSecondCall ==
    \A i, j \in 1..Len(option_calls) :
        (/\ i < j
         /\ option_calls[i].field = option_calls[j].field
         /\ option_calls[i].value = option_calls[j].value
         /\ option_calls[i].absent
         /\ option_calls[i].id # 0)
            => option_calls[j].id = option_calls[i].id

\* C6: no milestone-creation request is sent for a title that a milestone of
\* the repository already has, and no two milestones share a title.
C6_ExistingMilestoneReused ==
    [][ /\ \A k \in NewRequests :
            requests'[k].op = "create_milestone" =>
                \A i \in 1..Len(ghMilestones) :
                    ghMilestones[i]["title"] # requests'[k].a
        /\ \A i, j \in 1..Len(ghMilestones') :
            ghMilestones'[i]["title"] = ghMilestones'[j]["title"] => i = j
      ]_vars

\* C7 as claimed: a failed issue-creation request, for the first row too,
\* does not end the run.
C7_FailedRowContinues ==
    [][ \A k \in NewRequests :
            (requests'[k].op = "create_issue" /\ ~requests'[k].ok)
                => pc' # "exit"
      ]_vars

\* C7 amended: a failed issue-creation request for a row other than the first
\* counts the row as skipped and moves on to the next row; for the first row
\* (the sample) it ends the run with exit code 1.
C7_FailedRowContinuesAmended ==
    [][ \A k \in NewRequests :
            (requests'[k].op = "create_issue" /\ ~requests'[k].ok) =>
                IF requests'[k].row = 1
                THEN pc' = "exit" /\ exit_code' = 1
                ELSE /\ pc' = "create_issues"
                     /\ row_index' = requests'[k].row + 1
                     /\ skipped_count' = skipped_count + 1
                     /\ exit_code' = -1
      ]_vars

C7_Witness ==
    \E k, l \in 1..Len(requests) :
        /\ k < l
        /\ requests[k].op = "create_issue" /\ ~requests[k].ok
        /\ requests[k].row > 1
        /\ requests[l].op = "create_issue"
        /\ requests[l].row = requests[k].row + 1

\* C8: no issue-creation request for a row other than the first is sent
\* unless the user answered yes; after a no the run has ended with exit code
\* 0 and exactly one issue, the sample.
C8_NoBulkBeforeConfirm ==
    /\ \A k \in 1..Len(requests) :
        (requests[k].op = "create_issue" /\ requests[k].row # 1)
            => continue_choice = "yes"
    /\ \A i \in 1..Len(ghIssues) :
        ghIssues[i].row # 1 => continue_choice = "yes"
    /\ continue_choice = "no" =>
        /\ pc = "exit" /\ exit_code = 0
        /\ Len(ghIssues) = 1 /\ ghIssues[1].row = 1

C8_Witness ==
    /\ continue_choice = "no"
    /\ Len(csv_rows) > 1
    /\ Len(ghIssues) = 1

\* C9: the issues created only grow: no step removes an issue that exists.
C9_IssuesOnlyGrow ==
    [][ /\ Len(ghIssues') >= Len(ghIssues)
        /\ \A i \in 1..Len(ghIssues) :
            /\ ghIssues'[i].number = ghIssues[i].number
            /\ ghIssues'[i].row = ghIssues[i].row
      ]_vars

LaterSteps == {"add_item", "list_milestones", "create_milestone",
               "patch_issue", "append_option", "query_field",
               "update_field_value"}

C9_Witness ==
    \E k \in 1..Len(requests) :
        /\ requests[k].op \in LaterSteps
        /\ ~requests[k].ok
        /\ requests[k].row > 1
        /\ \E i \in 1..Len(ghIssues) : ghIssues[i].row = requests[k].row

\* the rows whose issue is attached to the Project and whose field loop ended
Attached(r) ==
    \E i \in 1..Len(ghIssues) : \E t \in 1..Len(ghItems) :
        ghIssues[i].row = r /\ ghItems[t].issue = ghIssues[i].number

CompletedRows ==
    {r \in 1..Len(csv_rows) :
        /\ Attached(r)
        /\ IF r = 1 THEN sample_result.success ELSE row_index > r}

\* the columns of row r the claim is about, as <<column, field>>
MatchedColumns(r) ==
    {c \in 1..Len(csv_headers) :
        /\ csv_rows[r][c] # <<>>
        /\ Lower(csv_headers[c]) \notin SkippedColumns
        /\ Lower(csv_headers[c]) \in DOMAIN analysis_results.project_fields}

FieldOfColumn(c) == analysis_results.project_fields[Lower(csv_headers[c])]

UpdatesOf(r, field) ==
    {k \in 1..Len(requests) :
        /\ requests[k].op = "update_field_value"
        /\ requests[k].row = r
        /\ requests[k].a = field.id}

\* the ids GitHub holds for the options of the field that are named value
IdsOfOption(field, value) ==
    LET live == get_updated_field(ghFields, field.id)
    IN  {live.options[o].id : o \in {n \in 1..Len(live.options) :
                                        live.options[n].name = value}}

\* find_option_id returned None for the column, or its date does not parse
Unresolved(r, field, value) ==
    \/ \E n \in 1..Len(option_calls) :
            /\ option_calls[n].row = r
            /\ option_calls[n].field = field
            /\ option_calls[n].value = value
            /\ option_calls[n].id = 0
    \/ field.dataType = "DATE" /\ ParseDate(value) = <<>>

\* C10 as claimed: every populated column of an attached row that matches a
\* Project field gets an updateProjectV2ItemFieldValue, whatever the field's
\* data type (unless its option could not be created or its date not parsed).
C10_EveryMatchedColumnUpdated ==
    \A r \in CompletedRows : \A c \in MatchedColumns(r) :
        \/ UpdatesOf(r, FieldOfColumn(c)) # {}
        \/ Unresolved(r, FieldOfColumn(c), csv_rows[r][c])

\* C10 amended: a column other than End Date matching a SINGLE_SELECT field
\* gets an update carrying the id of the option named as the row's value,
\* unless find_option_id returned None for it; an End Date column matching a
\* DATE field gets an update with the parsed date when the value parses; a
\* column matching a field of another data type gets no update.
C10_SingleSelectColumnsUpdated ==
    \A r \in CompletedRows : \A c \in MatchedColumns(r) :
        LET field == FieldOfColumn(c)
            value == csv_rows[r][c]
        IN  IF Lower(csv_headers[c]) = Lower(sEndDate)
            THEN (field.dataType = "DATE" /\ ParseDate(value) # <<>>) =>
                    \E k \in UpdatesOf(r, field) : requests[k].b = ParseDate(value)
            ELSE IF field.dataType = "SINGLE_SELECT"
            THEN \/ \E k \in UpdatesOf(r, field) :
                        requests[k].b \in IdsOfOption(field, value)
                 \/ Unresolved(r, field, value)
            ELSE UpdatesOf(r, field) = {}

C10_Witness ==
    \E r \in CompletedRows : \E c \in MatchedColumns(r) :
        /\ r > 1
        /\ FieldOfColumn(c).dataType = "SINGLE_SELECT"
        /\ csv_rows[r][c] \notin OptionNames(FieldOfColumn(c))
        /\ \E k \in UpdatesOf(r, FieldOfColumn(c)) :
                requests[k].b \in IdsOfOption(FieldOfColumn(c), csv_rows[r][c])

\* the rows create_issues went through: those after the sample's
BulkRows == {r \in 1..Len(csv_rows) : r > 1}

RowRequestFailed(r, op) ==
    \E k \in 1..Len(requests) :
        requests[k].row = r /\ requests[k].op = op /\ ~requests[k].ok

\* the rows create_issues gave up: no title, or the issue or its Project item
\* could not be created
SkippedRows ==
    {r \in BulkRows :
        \/ safe_get(csv_headers, csv_rows[r], sTitle) = <<>>
        \/ RowRequestFailed(r, "create_issue")
        \/ RowRequestFailed(r, "add_item")}

\* C11: when create_issues has returned, its created value is the number of
\* issues it created and its skipped value the number of rows it skipped.
C11_SummaryCountsMatch ==
    (pc = "exit" /\ continue_choice = "yes") =>
        /\ created_count =
              Cardinality({i \in 1..Len(ghIssues) : ghIssues[i].row \in BulkRows})
        /\ skipped_count = Cardinality(SkippedRows)

\* the conditions on the file, read off the file
HasTitleColumn == \E c \in 1..Len(csv_headers) : Lower(csv_headers[c]) = Lower(sTitle)

FirstRowHasTitle ==
    /\ csv_rows # <<>>
    /\ \E c \in 1..Len(csv_headers) :
        Lower(csv_headers[c]) = Lower(sTitle) /\ csv_rows[1][c] # <<>>

\* C13: main passes its CSV validation (and, the URLs being valid, goes on to
\* the access check) iff the file exists and parses, has a title column
\* ignoring case, has a data row and the first data row's title is not
\* empty, whatever the rows after the first hold.
C13_ValidateCsvFirstRowOnly ==
    [][ pc = "validate" =>
            ((pc' = "check_access") <=>
                (/\ csv_exists /\ csv_headers # <<>> /\ HasTitleColumn
                 /\ FirstRowHasTitle /\ urls_valid))
      ]_vars

C13_Witness ==
    /\ pc = "check_access"
    /\ \E r \in 2..Len(csv_rows) : safe_get(csv_headers, csv_rows[r], sTitle) = <<>>

\* C14: when the token did not load, or validate_csv is False, or the URLs
\* are invalid, the run sends no HTTP request and ends with exit code 1.
C14_FatalBeforeAnyRequest ==
    (\/ ~token_loaded
     \/ ~validate_csv(csv_exists, csv_headers, csv_rows)
     \/ ~urls_valid) =>
        /\ requests = <<>>
        /\ pc \in {"load_config", "validate", "exit"}
        /\ pc = "exit" => exit_code = 1

C14_Witness ==
    /\ pc = "exit" /\ exit_code = 1 /\ requests = <<>>
    /\ token_loaded
    /\ validate_csv(csv_exists, csv_headers, csv_rows)
    /\ ~urls_valid

\* the run ended before it had processed any row: in load_config, validation,
\* the access check or the analysis
EndedBeforeRows ==
    \A k \in 1..Len(requests) : requests[k].op # "create_issue"

\* C15 as claimed: a run that has ended has exit code 1 exactly when it ended
\* on a configuration or validation error, before any row was processed, and
\* 0 otherwise, whatever failed for its rows.
C15_ExitCodes ==
    pc = "exit" => exit_code = (IF EndedBeforeRows THEN 1 ELSE 0)

\* C15 amended: a run that has ended has exit code 1 exactly when it ended
\* before the sample issue of the first row was created and attached (a
\* configuration, validation, access or analysis error, or the failure of the
\* sample issue's creation or of its addition to the Project), and 0
\* otherwise: the user declined, or create_issues ran to its end whatever
\* failed for the rows after the first.
C15_ExitCodesAmended ==
    pc = "exit" => exit_code = (IF sample_result.success THEN 0 ELSE 1)

C15_Witness ==
    /\ pc = "exit" /\ exit_code = 0
    /\ \E r \in BulkRows : RowRequestFailed(r, "create_issue")

\* C16: every issue-creation request carries a payload with a title and with
\* no empty body, assignees or labels: an empty value's key is left out.
C16_EmptyValuesOmitted ==
    \A k \in 1..Len(requests) :
        requests[k].op = "create_issue" =>
            /\ "title" \in DOMAIN requests[k].b
            /\ \A key \in {"body", "assignees", "labels"} \cap DOMAIN requests[k].b :
                requests[k].b[key] # <<>>

\* the step of a row a request belongs to
StepOf(op) ==
    CASE op = "create_issue" -> 1
      [] op = "add_item" -> 2
      [] op \in {"list_milestones", "create_milestone", "patch_issue"} -> 3
      [] op \in {"append_option", "query_field", "update_field_value"} -> 4
      [] OTHER -> 0

RowRequests == {k \in 1..Len(requests) : requests[k].row >= 1}

\* C17: the requests of a row come in the order create issue, add to Project,
\* milestone, field values; a later step's request follows the row's
\* issue-creation request (and, from the milestone on, its add-to-Project
\* request); every request of a row precedes every request of a later row.
C17_RowStepsInOrder ==
    /\ \A k, l \in RowRequests :
        k < l =>
            /\ requests[k].row <= requests[l].row
            /\ requests[k].row = requests[l].row
                  => StepOf(requests[k].op) <= StepOf(requests[l].op)
    /\ \A l \in RowRequests :
        /\ StepOf(requests[l].op) >= 2 =>
            \E k \in 1..(l - 1) :
                /\ requests[k].row = requests[l].row
                /\ requests[k].op = "create_issue"
        /\ StepOf(requests[l].op) >= 3 =>
            \E k \in 1..(l - 1) :
                /\ requests[k].row = requests[l].row
                /\ requests[k].op = "add_item"

C17_Witness ==
    \E r \in BulkRows :
        /\ \A step \in 1..4 :
            \E k \in RowRequests :
                requests[k].row = r /\ StepOf(requests[k].op) = step
        /\ \E k \in RowRequests : requests[k].row = r - 1 /\ StepOf(requests[k].op) = 4

NewOptionCalls == {n \in 1..Len(option_calls') : n > Len(option_calls)}

C12_LimitsEnforced ==
    pc = "returned" =>
        (vf_result.is_valid <=>
            ~(\/ Len(vf_field_name) > 50
              \/ Cardinality(Range(vf_field_values)) > 50
              \/ \E i \in 1..Len(vf_field_values) : Len(vf_field_values[i]) > 50))

RequestSucceeded(op) ==
    \E k \in 1..Len(requests) : requests[k].op = op /\ requests[k].ok

IssueItems == {i \in 1..Len(ghProjectItems) : ghProjectItems[i].is_issue}

\* C19: once a list query of the pruner has been answered, its result holds
\* every element of the list: all_views every view of the Project, and the
\* issues of get_project_issues every issue among the Project's items.
C19_ListsFetchedWhole ==
    /\ RequestSucceeded("query_views") =>
            \A i \in 1..Len(ghViews) : ghViews[i] \in Range(all_views)
    /\ (selected_views = <<>> /\ pc \in {"label_not_planned", "label_old_done",
                                         "label_overflow", "audit_log"}) =>
            \A i \in IssueItems : ghProjectItems[i] \in Range(project_issues)

\* C20: no request follows an earlier failed request of the same operation
\* with the same arguments.
C20_NoSecondAttempt ==
    \A k, l \in 1..Len(requests) :
        (k < l /\ ~requests[k].ok) =>
            ~(/\ requests[l].op = requests[k].op
              /\ requests[l].a = requests[k].a
              /\ requests[l].b = requests[k].b)

\* C22: the step of analyze_csv_and_project sends read queries only and
\* leaves the Project's fields and options, the issues, the Project items
\* and the milestones as they were, whether it succeeds or fails.
C22_AnalysisReadsOnly ==
    [][ pc = "analyze" =>
            /\ UNCHANGED ghVars
            /\ \A k \in NewRequests : requests'[k].op = "query_fields"
      ]_vars

C22_Witness ==
    /\ pc = "exit"
    /\ ghFields # <<>>
    /\ \E k \in 1..Len(requests) :
        requests[k].op = "query_fields" /\ ~requests[k].ok

\* C23: every step of the pipeline keeps each field of the Project with its
\* id, name and data type and keeps each of its options as it was; what it
\* adds is appended, every added option with color GRAY.
C23_FieldsAndOptionsOnlyGrow ==
    [][ /\ Len(ghFields') >= Len(ghFields)
        /\ \A i \in 1..Len(ghFields) :
            /\ ghFields'[i].id = ghFields[i].id
            /\ ghFields'[i].name = ghFields[i].name
            /\ ghFields'[i].dataType = ghFields[i].dataType
            /\ Len(ghFields'[i].options) >= Len(ghFields[i].options)
            /\ \A o \in 1..Len(ghFields[i].options) :
                ghFields'[i].options[o] = ghFields[i].options[o]
            /\ \A o \in 1..Len(ghFields'[i].options) :
                o > Len(ghFields[i].options) =>
                    ghFields'[i].options[o].color = "GRAY"
      ]_vars

C23_Witness ==
    \E i \in 1..Len(ghFields) :
        /\ Len(ghFields[i].options) >= 2
        /\ \E o \in 1..Len(ghFields[i].options) :
            /\ ghFields[i].options[o].id >= 20
            /\ ghFields[i].options[o].color = "GRAY"

FailedAdds ==
    {k \in 1..Len(requests) :
        requests[k].op = "add_item" /\ ~requests[k].ok /\ requests[k].row > 1}

\* C26: a row of create_issues whose add-to-Project request failed is counted
\* as skipped, has no milestone request and no field request, keeps its
\* issue, and the run has moved on to the rows after it.
C26_FailedAddSkipsRow ==
    /\ \A k \in FailedAdds :
        LET r == requests[k].row
        IN  /\ \A l \in RowRequests :
                requests[l].row = r => StepOf(requests[l].op) <= 2
            /\ \E i \in 1..Len(ghIssues) : ghIssues[i].row = r
            /\ row_index > r
            /\ (pc = "exit" /\ r < Len(csv_rows)) =>
                \/ safe_get(csv_headers, csv_rows[r + 1], sTitle) = <<>>
                \/ \E l \in RowRequests :
                        requests[l].row = r + 1 /\ requests[l].op = "create_issue"
    /\ continue_choice = "yes" =>
            skipped_count = Cardinality({r \in SkippedRows : r < row_index})

C26_Witness ==
    /\ pc = "exit"
    /\ \E k \in FailedAdds : \E l \in RowRequests :
        /\ requests[l].row = requests[k].row + 1
        /\ requests[l].op = "create_issue"
        /\ requests[l].ok

IssuesOfRow(r) == {i \in 1..Len(ghIssues) : ghIssues[i].row = r}

\* C28: after a confirmed run whose requests all succeeded, every CSV row with
\* a title has exactly one issue and every row without a title has none.
C28_OneIssuePerRow ==
    (pc = "exit" /\ continue_choice = "yes" /\ failures = 0) =>
        \A r \in 1..Len(csv_rows) :
            Cardinality(IssuesOfRow(r)) =
                (IF safe_get(csv_headers, csv_rows[r], sTitle) # <<>> THEN 1 ELSE 0)

C28_Witness ==
    /\ pc = "exit" /\ continue_choice = "yes" /\ failures = 0
    /\ Len(csv_rows) >= 2
    /\ Len(ghIssues) = Len(csv_rows)
    /\ Cardinality(IssuesOfRow(1)) = 1

\* C30: among the requests of create_issues, the append-option mutation of a
\* field and an option value is sent at most once.
C30_AppendSentOnce ==
    \A k, l \in 1..Len(requests) :
        (/\ k < l
         /\ requests[k].op = "append_option" /\ requests[k].row > 1
         /\ requests[l].op = "append_option" /\ requests[l].row > 1) =>
            ~(requests[k].a = requests[l].a /\ requests[k].b = requests[l].b)

PrunerQueries == {"query_fields", "query_views", "query_items", "query_view_items"}

\* the positions in run_pruner's issues of the issues run_pruner counts
NotPlannedOf(issues) ==
    {i \in 1..Len(issues) :
        issues[i].closed /\ issues[i].closed_reason = "not_planned"}

OldDoneOf(issues) ==
    {i \in 1..Len(issues) :
        issues[i].status = "Done" /\ issues[i].age > done_age_days}

DoneOf(issues, workstream) ==
    {i \in 1..Len(issues) :
        issues[i].status = "Done" /\ issues[i].workstream = workstream}

DoneWorkstreams == {project_issues[i].workstream : i \in
                        {j \in 1..Len(project_issues) :
                            project_issues[j].status = "Done"}}

Max0(n) == IF n > 0 THEN n ELSE 0

\* C24: in a run whose dry_run is true, in the configuration or by --dry-run,
\* every request sent is a read query, no label is applied, the audit log
\* page stays as it is, and the result still carries the number of not-planned
\* issues and, as the archive count, the number of issues old in Done plus
\* the number of overflow issues of the workstreams.
C24_DryRunMutatesNothing ==
    [][ (args_dry_run \/ dry_run) =>
            /\ \A k \in NewRequests : requests'[k].op \in PrunerQueries
            /\ ghLabelled' = ghLabelled
            /\ ghAuditPage' = ghAuditPage
            /\ pruner_result'.success =>
                /\ pruner_result'.not_planned_count =
                        Cardinality(NotPlannedOf(project_issues))
                /\ pruner_result'.archived_count =
                        Cardinality(OldDoneOf(project_issues)) +
                        Cardinality(UNION {
                            {<<w, j>> : j \in 1..Max0(
                                Cardinality(DoneOf(project_issues, w)) -
                                done_overflow_limit)} : w \in DoneWorkstreams})
                /\ pruner_result'.total_processed = Len(project_issues)
      ]_vars

C24_Witness ==
    /\ pc = "exit" /\ pruner_result.success
    /\ args_dry_run /\ dry_run
    /\ pruner_result.not_planned_count > 0
    /\ pruner_result.archived_count > 0
    /\ Len(requests) >= 3
    /\ ghLabelled = {}

\* C27: for each workstream with n Done issues and overflow limit L, the
\* overflow selection holds Max(n - L, 0) of its issues, each of them once,
\* and every selected issue is at least as old as every Done issue of the
\* workstream that is not selected; so at most L of them stay unselected.
C27_OverflowOldestBeyondLimit ==
    LET over == overflow_issues
        Selected(w) == {k \in 1..Len(over) : over[k].workstream = w}
    IN  /\ \A k \in 1..Len(over) :
            /\ over[k] \in Range(project_issues)
            /\ over[k].status = "Done"
            /\ \A l \in 1..Len(over) : over[l].number = over[k].number => l = k
        /\ \A w \in DoneWorkstreams :
            LET done == DoneOf(project_issues, w)
                numbers == {over[k].number : k \in Selected(w)}
                left == {i \in done : project_issues[i].number \notin numbers}
            IN  /\ Cardinality(Selected(w)) =
                        Max0(Cardinality(done) - done_overflow_limit)
                /\ Cardinality(left) <= done_overflow_limit
                /\ \A k \in Selected(w) : \A i \in left :
                        over[k].age >= project_issues[i].age

C27_Witness ==
    /\ pc = "exit" /\ pruner_result.success
    /\ \E w \in DoneWorkstreams :
        /\ Cardinality(DoneOf(project_issues, w)) > done_overflow_limit
        /\ \E k \in 1..Len(overflow_issues) : overflow_issues[k].workstream = w
    /\ \E w \in DoneWorkstreams :
        Cardinality(DoneOf(project_issues, w)) <= done_overflow_limit

ArchiveSelected ==
    {old_done_issues[k].number : k \in 1..Len(old_done_issues)} \cup
    {overflow_issues[k].number : k \in 1..Len(overflow_issues)}

\* C29: the archived_count of a successful run is the number of distinct
\* issues selected for the Archive label, and in a run without a failed
\* response each issue has at most one request that adds the Archive label.
C29_ArchivedCountDistinct ==
    (pc = "exit" /\ pruner_result.success) =>
        /\ pruner_result.archived_count = Cardinality(ArchiveSelected)
        /\ failures = 0 =>
            \A k, l \in 1..Len(requests) :
                (/\ requests[k].op = "add_label" /\ requests[k].b = "Archive"
                 /\ requests[l].op = "add_label" /\ requests[l].b = "Archive"
                 /\ requests[k].a = requests[l].a) => k = l

\* C21: no request whose response carries an errors array is taken for a
\* success by the operation that sent it, whatever its status code.
C21_ErrorsMeanFailure ==
    \A k \in 1..Len(requests) : requests[k].errors => ~requests[k].ok

\* C25: without --confirm-live every request dump.py sends is a read query,
\* and no issue, no milestone and no field is created on GitHub.
C25_DumpDryRunCreatesNothing ==
    [][ ~confirm_live =>
            /\ \A k \in NewRequests :
                    requests'[k].op \in {"query_project", "query_fields"}
            /\ UNCHANGED <<ghDumpFields, ghDumpIssues, ghDumpMilestones>>
      ]_vars

C25_Witness ==
    /\ pc = "exit" /\ exit_code = 0
    /\ ~confirm_live
    /\ confirm = "y"
    /\ field_index > Len(unknown)
    /\ milestone_cache # {}
    /\ issue_index > Len(dump_issues)
    /\ Len(dump_issues) >= 2
    /\ Len(requests) = 2

=============================================================================
